---- MODULE Spec2Model ----
(***************************************************************************)
(* Shoot-to-Seed scheduler of Gardener                                     *)
(* (pkg/scheduler/controller/shoot/reconciler.go).                         *)
(*                                                                         *)
(* The store holds an ordered Seed list, a set of Shoots and at most one   *)
(* CloudProfile.  One reconcile per Shoot identifier runs at a time; the   *)
(* reconciles of different Shoots interleave at the store operations.      *)
(*                                                                         *)
(* Optional values (Go pointers, map lookups) are sequences of length 0    *)
(* or 1; a Shoot's seedName is "" when the pointer is nil.                 *)
(***************************************************************************)
EXTENDS Integers, Sequences, FiniteSets, TLC

VARIABLES
    seeds,          \* the store's Seed list, in the order a List returns it
    shoots,         \* the store's Shoots: ShootIds -> Shoot object
    cloudProfile,   \* the store's CloudProfile: <<>> (not found) or <<cp>>
    resourceVersion,\* the store's version counter of each Shoot object
    strategy,       \* r.Config.Strategy
    concurrentSyncs,\* r.Config.ConcurrentSyncs, the size of the worker pool
    rec,            \* ShootIds -> the reconcile of that Shoot (locals, position, history)
    budget,         \* what the run may still do: reconciles to start, store
                    \* faults, writes by other actors
    crs             \* the controllerregistration-seed controller: the objects it
                    \* watches and the requests its last watch event enqueued

vars == <<seeds, shoots, cloudProfile, resourceVersion, strategy, concurrentSyncs, rec, budget,
          crs>>

\* The state of the scheduler, and the state of its sibling controller.
scheduler == <<seeds, shoots, cloudProfile, resourceVersion, strategy, concurrentSyncs, rec, budget>>
siblings == <<crs>>

(***************************************************************************)
(* Bounds of the model.                                                    *)
(***************************************************************************)
MaxSeeds == 2            \* length of the Seed list
MaxReconciles == 3       \* reconciles started in a concurrent run
MaxSeqReconciles == 1    \* reconciles started in a run over the wide inputs
MaxFaults == 1           \* failed store operations in a run
MaxExtWrites == 1        \* writes by other actors in a run
MaxRegistrations == 2    \* length of the ControllerRegistration list
MaxStageSeeds == 3       \* length of the Seed list in the runs over every stage

(***************************************************************************)
(* Program constants.                                                      *)
(***************************************************************************)
MinZonesForZonalControlPlane == 3
InitialMinDistance == 1000
CrossProviderPenalty == 2

ShootPurposeTesting == "testing"
FailureToleranceTypeZone == "zone"
SameRegion == "SameRegion"
MinimalDistance == "MinimalDistance"
WildcardProvider == "*"
SeedBootstrapped == "Bootstrapped"
SeedGardenletReady == "GardenletReady"
SeedBackupBucketsReady == "BackupBucketsReady"
ConditionTrue == "True"

(***************************************************************************)
(* Generic helpers on sequences.                                           *)
(***************************************************************************)
Range(s) == {s[i] : i \in 1..Len(s)}

Min2(a, b) == IF a <= b THEN a ELSE b

\* An error value: its kind and the input cardinality its text carries.
\* detail is the per-Seed rejection map {<<seed name, reason>>} where one is reported.
Err(kind, n, detail) == [kind |-> kind, n |-> n, detail |-> detail]
NoErr == Err("", 0, {})

(***************************************************************************)
(* Helpers of the v1beta1 helper and validation packages.                  *)
(***************************************************************************)
RECURSIVE GetCondition(_, _)
\* The first condition of the given type: <<>> or <<condition>>.
GetCondition(conditions, type) ==
    IF conditions = <<>> THEN <<>>
    ELSE IF Head(conditions).type = type THEN <<Head(conditions)>>
    ELSE GetCondition(Tail(conditions), type)

\* Number of Shoots of the list whose seedName is the given Seed.
CalculateSeedUsage(shootList, seedName) ==
    Cardinality({i \in 1..Len(shootList) : shootList[i].seedName = seedName})

TaintsAreTolerated(taints, tolerations) ==
    \A t \in taints :
        \E tol \in tolerations :
            tol.key = t.key /\ (tol.value = <<>> \/ tol.value = t.value)

IsMultiZonalShootControlPlane(shoot) ==
    shoot.failureToleranceType = FailureToleranceTypeZone

\* A CIDR is the address interval [lo, hi] it covers.
NetworksIntersect(c1, c2) == c1.lo <= c2.hi /\ c2.lo <= c1.hi

\* The overlaps among the given networks (each <<>> or <<cidr>>), as the set
\* of offending pairs of positions.
ValidateNetworkDisjointedness(shNodes, shPods, shServices, sdNodes, sdPods, sdServices) ==
    LET nets == <<shNodes, shPods, shServices, sdNodes, sdPods, sdServices>>
    IN {p \in (1..6) \X (1..6) :
           /\ p[1] < p[2]
           /\ nets[p[1]] # <<>> /\ nets[p[2]] # <<>>
           /\ NetworksIntersect(nets[p[1]][1], nets[p[2]][1])}

\* LabelSelectorAsSelector followed by Matches: every matchLabels entry is
\* among the labels.
SelectorMatches(labelSelector, labels) == labelSelector.matchLabels \subseteq labels

RECURSIVE distance(_, _)
\* Edit distance of two region codes (sequences of characters).
distance(a, b) ==
    IF a = <<>> THEN Len(b)
    ELSE IF b = <<>> THEN Len(a)
    ELSE IF Head(a) = Head(b) THEN distance(Tail(a), Tail(b))
    ELSE 1 + Min2(distance(Tail(a), b),
                  Min2(distance(a, Tail(b)), distance(Tail(a), Tail(b))))

(***************************************************************************)
(* The candidate pipeline.  A stage returns [seeds, err]; err.kind = ""    *)
(* means success.                                                          *)
(***************************************************************************)
StageOk(list) == [seeds |-> list, err |-> NoErr]
StageErr(kind, n) == [seeds |-> <<>>, err |-> Err(kind, n, {})]

ConditionIsTrue(seed, type) ==
    LET cond == GetCondition(seed.conditions, type)
    IN cond # <<>> /\ cond[1].status = ConditionTrue

\* Variant without the backup check of lines 418-422.
verifySeedReadinessIgnoringBackup(seed) ==
    /\ ConditionIsTrue(seed, SeedBootstrapped)
    /\ ConditionIsTrue(seed, SeedGardenletReady)

verifySeedReadiness(seed) ==
    /\ ConditionIsTrue(seed, SeedBootstrapped)
    /\ ConditionIsTrue(seed, SeedGardenletReady)
    /\ (seed.backup => ConditionIsTrue(seed, SeedBackupBucketsReady))

isUsableSeed(seed) ==
    ~seed.deletionTimestamp /\ seed.visible /\ verifySeedReadiness(seed)

\* Variant without the emptiness check of lines 169-171.
filterUsableSeedsUnchecked(seedList) == StageOk(SelectSeq(seedList, isUsableSeed))

filterUsableSeeds(seedList) ==
    LET matchingSeeds == SelectSeq(seedList, isUsableSeed)
    IN IF Len(matchingSeeds) = 0
       THEN StageErr("NoUsableSeed", Len(seedList))
       ELSE StageOk(matchingSeeds)

\* Variant without the emptiness check of lines 190-192.
filterSeedsMatchingLabelSelectorUnchecked(seedList, seedSelector, kind) ==
    IF seedSelector = <<>> THEN StageOk(seedList)
    ELSE IF ~seedSelector[1].labelSelector.valid
    THEN StageErr("SelectorConversionFailed", Len(seedList))
    ELSE StageOk(SelectSeq(seedList,
             LAMBDA seed : SelectorMatches(seedSelector[1].labelSelector, seed.labels)))

\* seedSelector is <<>> (nil) or <<[labelSelector, ...]>>.
filterSeedsMatchingLabelSelector(seedList, seedSelector, kind) ==
    IF seedSelector = <<>> THEN StageOk(seedList)
    ELSE IF ~seedSelector[1].labelSelector.valid
    THEN StageErr("SelectorConversionFailed", Len(seedList))
    ELSE LET matchingSeeds ==
                 SelectSeq(seedList,
                        LAMBDA seed : SelectorMatches(seedSelector[1].labelSelector, seed.labels))
         IN IF Len(matchingSeeds) = 0
            THEN StageErr("NoSeedMatchesSelectorOf" \o kind, Len(seedList))
            ELSE StageOk(matchingSeeds)

\* Variant that accepts the Shoot's own provider type whatever the enabled
\* types are (line 305).
matchProviderOwnTypeAlways(seedProviderType, shootProviderType, enabledProviderTypes) ==
    \/ seedProviderType = shootProviderType
    \/ \E i \in 1..Len(enabledProviderTypes) :
           \/ enabledProviderTypes[i] = WildcardProvider
           \/ enabledProviderTypes[i] = seedProviderType

matchProvider(seedProviderType, shootProviderType, enabledProviderTypes) ==
    IF Len(enabledProviderTypes) = 0
    THEN seedProviderType = shootProviderType
    ELSE \E i \in 1..Len(enabledProviderTypes) :
             \/ enabledProviderTypes[i] = WildcardProvider
             \/ enabledProviderTypes[i] = seedProviderType

filterSeedsMatchingProviders(cp, shoot, seedList) ==
    LET possibleProviders ==
            IF cp.seedSelector # <<>> THEN cp.seedSelector[1].providerTypes ELSE <<>>
        matchingSeeds ==
            SelectSeq(seedList,
                   LAMBDA seed : matchProvider(seed.providerType, shoot.providerType,
                                               possibleProviders))
    IN IF Len(matchingSeeds) = 0
       THEN StageErr("NoSeedMatchesProvider", Len(seedList))
       ELSE StageOk(matchingSeeds)

\* Variant that accepts Seeds with one zone fewer (line 222).
filterSeedsForZonalShootControlPlanesTwoZones(seedList, shoot) ==
    IF IsMultiZonalShootControlPlane(shoot)
    THEN LET seedsWithAtLeastTwoZones ==
                 SelectSeq(seedList,
                        LAMBDA seed : Len(seed.zones) >= MinZonesForZonalControlPlane - 1)
         IN IF Len(seedsWithAtLeastTwoZones) = 0
            THEN StageErr("NoSeedWithThreeZones", Len(seedList))
            ELSE StageOk(seedsWithAtLeastTwoZones)
    ELSE StageOk(seedList)

\* Variant that applies the zone filter to every Shoot (line 219).
filterSeedsForZonalShootControlPlanesAlways(seedList, shoot) ==
    LET seedsWithAtLeastThreeZones ==
            SelectSeq(seedList, LAMBDA seed : Len(seed.zones) >= MinZonesForZonalControlPlane)
    IN IF Len(seedsWithAtLeastThreeZones) = 0
       THEN StageErr("NoSeedWithThreeZones", Len(seedList))
       ELSE StageOk(seedsWithAtLeastThreeZones)

filterSeedsForZonalShootControlPlanes(seedList, shoot) ==
    IF IsMultiZonalShootControlPlane(shoot)
    THEN LET seedsWithAtLeastThreeZones ==
                 SelectSeq(seedList,
                        LAMBDA seed : Len(seed.zones) >= MinZonesForZonalControlPlane)
         IN IF Len(seedsWithAtLeastThreeZones) = 0
            THEN StageErr("NoSeedWithThreeZones", Len(seedList))
            ELSE StageOk(seedsWithAtLeastThreeZones)
    ELSE StageOk(seedList)

\* Variant without the substitution of the shootDefaults (lines 375-382).
networksAreDisjointedWithoutDefaults(seed, shoot) ==
    ValidateNetworkDisjointedness(shoot.nodes, shoot.pods, shoot.services,
                                  seed.nodes, <<seed.pods>>, <<seed.services>>) = {}

networksAreDisjointed(seed, shoot) ==
    LET shootPodsNetwork ==
            IF seed.shootDefaults # <<>> /\ shoot.pods = <<>>
            THEN seed.shootDefaults[1].pods ELSE shoot.pods
        shootServicesNetwork ==
            IF seed.shootDefaults # <<>> /\ shoot.services = <<>>
            THEN seed.shootDefaults[1].services ELSE shoot.services
    IN ValidateNetworkDisjointedness(shoot.nodes, shootPodsNetwork, shootServicesNetwork,
                                     seed.nodes, <<seed.pods>>, <<seed.services>>) = {}

\* Variant without the toleration check of lines 267-270.
candidateErrorNoTaints(seed, shoot, shootList) ==
    IF ~networksAreDisjointed(seed, shoot) THEN "invalid networks"
    ELSE IF /\ seed.allocatable # <<>>
            /\ CalculateSeedUsage(shootList, seed.name) >= seed.allocatable[1]
    THEN "seed does not have available capacity for shoots"
    ELSE ""

\* Variant without the capacity check of lines 272-275.
candidateErrorNoCapacity(seed, shoot, shootList) ==
    IF ~networksAreDisjointed(seed, shoot) THEN "invalid networks"
    ELSE IF ~TaintsAreTolerated(seed.taints, shoot.tolerations)
    THEN "shoot does not tolerate the seed's taints"
    ELSE ""

\* Variant whose capacity check of line 272 compares with > instead of >=.
candidateErrorAboveCapacity(seed, shoot, shootList) ==
    IF ~networksAreDisjointed(seed, shoot) THEN "invalid networks"
    ELSE IF ~TaintsAreTolerated(seed.taints, shoot.tolerations)
    THEN "shoot does not tolerate the seed's taints"
    ELSE IF /\ seed.allocatable # <<>>
            /\ CalculateSeedUsage(shootList, seed.name) > seed.allocatable[1]
    THEN "seed does not have available capacity for shoots"
    ELSE ""

\* Variant that checks the tolerations before the networks.
candidateErrorTaintsFirst(seed, shoot, shootList) ==
    IF ~TaintsAreTolerated(seed.taints, shoot.tolerations)
    THEN "shoot does not tolerate the seed's taints"
    ELSE IF ~networksAreDisjointed(seed, shoot) THEN "invalid networks"
    ELSE IF /\ seed.allocatable # <<>>
            /\ CalculateSeedUsage(shootList, seed.name) >= seed.allocatable[1]
    THEN "seed does not have available capacity for shoots"
    ELSE ""

\* The reason filterCandidates records for the Seed, "" if it is a candidate.
candidateError(seed, shoot, shootList) ==
    IF ~networksAreDisjointed(seed, shoot) THEN "invalid networks"
    ELSE IF ~TaintsAreTolerated(seed.taints, shoot.tolerations)
    THEN "shoot does not tolerate the seed's taints"
    ELSE IF /\ seed.allocatable # <<>>
            /\ CalculateSeedUsage(shootList, seed.name) >= seed.allocatable[1]
    THEN "seed does not have available capacity for shoots"
    ELSE ""

\* Variant that fails as soon as one Seed is rejected (line 280).
filterCandidatesAllOrNothing(shoot, shootList, seedList) ==
    LET candidates ==
            SelectSeq(seedList, LAMBDA seed : candidateError(seed, shoot, shootList) = "")
        candidateErrors ==
            {<<seedList[i].name, candidateError(seedList[i], shoot, shootList)>> :
                i \in {j \in 1..Len(seedList) :
                           candidateError(seedList[j], shoot, shootList) # ""}}
    IN IF candidates = <<>> \/ candidateErrors # {}
       THEN [seeds |-> <<>>,
             err |-> Err("NoEligibleCandidate", Len(seedList), candidateErrors)]
       ELSE StageOk(candidates)

RECURSIVE candidateErrorsLoop(_, _, _, _)
\* The map candidateErrors after the loop of filterCandidates over the
\* remaining Seeds: an assignment replaces the entry of the Seed's name.
candidateErrorsLoop(seedList, shoot, shootList, candidateErrors) ==
    IF seedList = <<>> THEN candidateErrors
    ELSE IF candidateError(Head(seedList), shoot, shootList) = ""
    THEN candidateErrorsLoop(Tail(seedList), shoot, shootList, candidateErrors)
    ELSE candidateErrorsLoop(Tail(seedList), shoot, shootList,
             {e \in candidateErrors : e[1] # Head(seedList).name}
                 \cup {<<Head(seedList).name,
                         candidateError(Head(seedList), shoot, shootList)>>})

filterCandidates(shoot, shootList, seedList) ==
    LET candidates ==
            SelectSeq(seedList, LAMBDA seed : candidateError(seed, shoot, shootList) = "")
        candidateErrors ==
            {<<seedList[i].name, candidateError(seedList[i], shoot, shootList)>> :
                i \in {j \in 1..Len(seedList) :
                           candidateError(seedList[j], shoot, shootList) # ""}}
    IN IF candidates = <<>>
       THEN [seeds |-> <<>>,
             err |-> Err("NoEligibleCandidate", Len(seedList), candidateErrors)]
       ELSE StageOk(candidates)

\* Variant of the same-provider filter that also compares the region (line 320).
determineCandidatesOfSameProviderAndRegion(seedList, shoot) ==
    SelectSeq(seedList,
           LAMBDA seed : seed.providerType = shoot.providerType /\ seed.region = shoot.region)

determineCandidatesOfSameProvider(seedList, shoot) ==
    SelectSeq(seedList, LAMBDA seed : seed.providerType = shoot.providerType)

\* Variant of the same-region filter without the provider comparison of line 331.
determineCandidatesWithSameRegionStrategyRegionOnly(seedList, shoot) ==
    SelectSeq(seedList, LAMBDA seed : seed.region = shoot.region)

determineCandidatesWithSameRegionStrategy(seedList, shoot) ==
    SelectSeq(seedList,
           LAMBDA seed : seed.providerType = shoot.providerType /\ seed.region = shoot.region)

\* Variant without the penalty of lines 350-352.
penalisedDistanceNoPenalty(seed, shoot) == distance(seed.region, shoot.region)

\* The distance the minimal-distance loop compares: region distance plus the
\* cross-provider penalty.
penalisedDistance(seed, shoot) ==
    distance(seed.region, shoot.region)
        + (IF shoot.providerType # seed.providerType THEN CrossProviderPenalty ELSE 0)

RECURSIVE minimalDistanceLoopNoReset(_, _, _, _)
\* Variant whose replace branch (lines 359-362) appends to the candidates
\* instead of starting them anew.
minimalDistanceLoopNoReset(seedList, shoot, minDistance, candidates) ==
    IF seedList = <<>> THEN candidates
    ELSE LET seed == Head(seedList)
             dist == penalisedDistance(seed, shoot)
         IN IF dist = minDistance
            THEN minimalDistanceLoopNoReset(Tail(seedList), shoot, minDistance,
                                            Append(candidates, seed))
            ELSE IF dist < minDistance
            THEN minimalDistanceLoopNoReset(Tail(seedList), shoot, dist,
                                            Append(candidates, seed))
            ELSE minimalDistanceLoopNoReset(Tail(seedList), shoot, minDistance, candidates)

RECURSIVE minimalDistanceLoopPrepend(_, _, _, _)
\* Variant whose append branch (lines 354-357) puts the Seed in front.
minimalDistanceLoopPrepend(seedList, shoot, minDistance, candidates) ==
    IF seedList = <<>> THEN candidates
    ELSE LET seed == Head(seedList)
             dist == penalisedDistance(seed, shoot)
         IN IF dist = minDistance
            THEN minimalDistanceLoopPrepend(Tail(seedList), shoot, minDistance,
                                            <<seed>> \o candidates)
            ELSE IF dist < minDistance
            THEN minimalDistanceLoopPrepend(Tail(seedList), shoot, dist, <<seed>>)
            ELSE minimalDistanceLoopPrepend(Tail(seedList), shoot, minDistance, candidates)

RECURSIVE minimalDistanceLoop(_, _, _, _)
\* The loop of determineCandidatesWithMinimalDistanceStrategy from the state
\* (minDistance, candidates) over the remaining seeds.
minimalDistanceLoop(seedList, shoot, minDistance, candidates) ==
    IF seedList = <<>> THEN candidates
    ELSE LET seed == Head(seedList)
             dist == penalisedDistance(seed, shoot)
         IN IF dist = minDistance
            THEN minimalDistanceLoop(Tail(seedList), shoot, minDistance,
                                     Append(candidates, seed))
            ELSE IF dist < minDistance
            THEN minimalDistanceLoop(Tail(seedList), shoot, dist, <<seed>>)
            ELSE minimalDistanceLoop(Tail(seedList), shoot, minDistance, candidates)

\* Variant whose running minimum starts at the distance of the first Seed.
determineCandidatesWithMinimalDistanceStrategyNoSentinel(seedList, shoot) ==
    IF seedList = <<>> THEN <<>>
    ELSE minimalDistanceLoop(seedList, shoot, penalisedDistance(Head(seedList), shoot), <<>>)

determineCandidatesWithMinimalDistanceStrategy(seedList, shoot) ==
    minimalDistanceLoop(seedList, shoot, InitialMinDistance, <<>>)

\* Variant without the check of lines 248-250.
applyStrategyUnchecked(shoot, seedList, strat) ==
    IF shoot.purpose = ShootPurposeTesting
    THEN StageOk(determineCandidatesOfSameProvider(seedList, shoot))
    ELSE IF strat = SameRegion
    THEN StageOk(determineCandidatesWithSameRegionStrategy(seedList, shoot))
    ELSE IF strat = MinimalDistance
    THEN StageOk(determineCandidatesWithMinimalDistanceStrategy(seedList, shoot))
    ELSE IF shoot.purpose = ""
    THEN StageErr("panic: nil pointer dereference", Len(seedList))
    ELSE StageErr("UnknownStrategy", Len(seedList))

\* shoot.purpose is "" when the pointer is nil; the default branch formats
\* *shoot.Spec.Purpose and so dereferences it.
applyStrategy(shoot, seedList, strat) ==
    LET noCandidate(c) ==
            IF c = <<>> THEN StageErr("NoMatchingSeedCandidate", Len(seedList))
            ELSE StageOk(c)
    IN IF shoot.purpose = ShootPurposeTesting
       THEN noCandidate(determineCandidatesOfSameProvider(seedList, shoot))
       ELSE IF strat = SameRegion
       THEN noCandidate(determineCandidatesWithSameRegionStrategy(seedList, shoot))
       ELSE IF strat = MinimalDistance
       THEN noCandidate(determineCandidatesWithMinimalDistanceStrategy(seedList, shoot))
       ELSE IF shoot.purpose = ""
       THEN StageErr("panic: nil pointer dereference", Len(seedList))
       ELSE StageErr("UnknownStrategy", Len(seedList))

\* The zero value of a Seed, which getSeedWithLeastShootsDeployed returns for
\* an empty list.
ZeroSeed ==
    [name |-> "", deletionTimestamp |-> FALSE, visible |-> FALSE, conditions |-> <<>>,
     backup |-> FALSE, labels |-> {}, providerType |-> "", region |-> <<>>,
     zones |-> <<>>, nodes |-> <<>>, pods |-> [lo |-> 0, hi |-> 0],
     services |-> [lo |-> 0, hi |-> 0], shootDefaults |-> <<>>,
     taints |-> {}, allocatable |-> <<>>]

RECURSIVE leastShootsLoopMost(_, _, _, _)
\* Variant whose comparison of line 295 is > instead of <.
leastShootsLoopMost(seedList, shootList, bestCandidate, min) ==
    IF seedList = <<>> THEN bestCandidate
    ELSE LET seed == Head(seedList)
             numberOfManagedShoots == CalculateSeedUsage(shootList, seed.name)
         IN IF min = <<>> \/ numberOfManagedShoots > min[1]
            THEN leastShootsLoopMost(Tail(seedList), shootList, seed,
                                     <<numberOfManagedShoots>>)
            ELSE leastShootsLoopMost(Tail(seedList), shootList, bestCandidate, min)

RECURSIVE leastShootsLoopLast(_, _, _, _)
\* Variant whose comparison of line 295 is <= instead of <.
leastShootsLoopLast(seedList, shootList, bestCandidate, min) ==
    IF seedList = <<>> THEN bestCandidate
    ELSE LET seed == Head(seedList)
             numberOfManagedShoots == CalculateSeedUsage(shootList, seed.name)
         IN IF min = <<>> \/ numberOfManagedShoots <= min[1]
            THEN leastShootsLoopLast(Tail(seedList), shootList, seed,
                                     <<numberOfManagedShoots>>)
            ELSE leastShootsLoopLast(Tail(seedList), shootList, bestCandidate, min)

RECURSIVE leastShootsLoopFirst(_, _, _, _)
\* Variant whose condition of line 295 is min == nil alone.
leastShootsLoopFirst(seedList, shootList, bestCandidate, min) ==
    IF seedList = <<>> THEN bestCandidate
    ELSE LET seed == Head(seedList)
             numberOfManagedShoots == CalculateSeedUsage(shootList, seed.name)
         IN IF min = <<>>
            THEN leastShootsLoopFirst(Tail(seedList), shootList, seed,
                                      <<numberOfManagedShoots>>)
            ELSE leastShootsLoopFirst(Tail(seedList), shootList, bestCandidate, min)

RECURSIVE leastShootsLoop(_, _, _, _)
\* The loop of getSeedWithLeastShootsDeployed; min is <<>> (nil) or <<n>>.
leastShootsLoop(seedList, shootList, bestCandidate, min) ==
    IF seedList = <<>> THEN bestCandidate
    ELSE LET seed == Head(seedList)
             numberOfManagedShoots == CalculateSeedUsage(shootList, seed.name)
         IN IF min = <<>> \/ numberOfManagedShoots < min[1]
            THEN leastShootsLoop(Tail(seedList), shootList, seed, <<numberOfManagedShoots>>)
            ELSE leastShootsLoop(Tail(seedList), shootList, bestCandidate, min)

getSeedWithLeastShootsDeployed(seedList, shootList) ==
    leastShootsLoop(seedList, shootList, ZeroSeed, <<>>)

\* determineSeed after the three reads: each stage is skipped once an earlier
\* stage has returned an error (the `if err != nil { return nil, err }`).
thenCloudProfileSelector(prev, cp) ==
    IF prev.err # NoErr THEN prev
    ELSE filterSeedsMatchingLabelSelector(prev.seeds, cp.seedSelector, "CloudProfile")
thenShootSelector(prev, shoot) ==
    IF prev.err # NoErr THEN prev
    ELSE filterSeedsMatchingLabelSelector(prev.seeds, shoot.seedSelector, "Shoot")
thenProviders(prev, cp, shoot) ==
    IF prev.err # NoErr THEN prev
    ELSE filterSeedsMatchingProviders(cp, shoot, prev.seeds)
thenZones(prev, shoot) ==
    IF prev.err # NoErr THEN prev
    ELSE filterSeedsForZonalShootControlPlanes(prev.seeds, shoot)
thenCandidates(prev, shoot, shootList) ==
    IF prev.err # NoErr THEN prev
    ELSE filterCandidates(shoot, shootList, prev.seeds)
thenStrategy(prev, shoot, strat) ==
    IF prev.err # NoErr THEN prev
    ELSE applyStrategy(shoot, prev.seeds, strat)
thenLeastShoots(prev, shootList) ==
    IF prev.err # NoErr THEN [seed |-> ZeroSeed, err |-> prev.err]
    ELSE [seed |-> getSeedWithLeastShootsDeployed(prev.seeds, shootList), err |-> NoErr]

\* The output of each stage of a run of determineSeed.
stageUsable(seedList) == filterUsableSeeds(seedList)
stageCloudProfileSelector(seedList, cp) ==
    thenCloudProfileSelector(stageUsable(seedList), cp)
stageShootSelector(shoot, seedList, cp) ==
    thenShootSelector(stageCloudProfileSelector(seedList, cp), shoot)
stageProviders(shoot, seedList, cp) ==
    thenProviders(stageShootSelector(shoot, seedList, cp), cp, shoot)
stageZones(shoot, seedList, cp) ==
    thenZones(stageProviders(shoot, seedList, cp), shoot)
stageCandidates(shoot, seedList, shootList, cp) ==
    thenCandidates(stageZones(shoot, seedList, cp), shoot, shootList)
stageStrategy(shoot, seedList, shootList, cp, strat) ==
    thenStrategy(stageCandidates(shoot, seedList, shootList, cp), shoot, strat)

\* determineSeed on the three snapshots: [seed, err], err = NoErr on success.
determineSeed(shoot, seedList, shootList, cp, strat) ==
    thenLeastShoots(stageStrategy(shoot, seedList, shootList, cp, strat), shootList)

(***************************************************************************)
(* The store.                                                              *)
(***************************************************************************)
ShootOrder == <<"x", "y", "z">>
ShootIds == Range(ShootOrder)

\* Variant that lists only the Shoots without a Seed.
ListShootsOfUnscheduled(store) ==
    LET ids == SelectSeq(ShootOrder, LAMBDA id : store[id].exists /\ store[id].seedName = "")
    IN [i \in 1..Len(ids) |-> store[ids[i]]]

\* List of Shoots: the existing Shoots in store order.
ListShootsOf(store) ==
    LET ids == SelectSeq(ShootOrder, LAMBDA id : store[id].exists)
    IN [i \in 1..Len(ids) |-> store[ids[i]]]

\* Get of the CloudProfile a Shoot names: <<>> when not found.
GetCloudProfileOf(cpStore, name) ==
    IF cpStore # <<>> /\ cpStore[1].name = name THEN cpStore ELSE <<>>

\* Outcome of the update of the binding subresource with an object read at
\* version readVersion.
bindingUpdateOutcome(stored, storedVersion, readVersion) ==
    IF ~stored.exists THEN "NotFound"
    ELSE IF storedVersion # readVersion THEN "Conflict"
    ELSE "ok"

(***************************************************************************)
(* Reconcile.  A reconcile keeps the objects it read and, as history, the  *)
(* store operations it issued, the events it emitted and what it returned. *)
(***************************************************************************)
ZeroShoot ==
    [name |-> "", exists |-> FALSE, deletionTimestamp |-> FALSE, seedName |-> "",
     cloudProfileName |-> "", region |-> <<>>, providerType |-> "", purpose |-> "",
     failureToleranceType |-> "", nodes |-> <<>>, pods |-> <<>>, services |-> <<>>,
     tolerations |-> {}, seedSelector |-> <<>>]

IdleReconcile ==
    [pc |-> "idle", shoot |-> ZeroShoot, found |-> FALSE, readVersion |-> 0,
     seedList |-> <<>>, shootList |-> <<>>, cp |-> <<>>, seed |-> ZeroSeed,
     ops |-> <<>>, events |-> <<>>, result |-> "none", err |-> NoErr, wrote |-> FALSE]

\* Variant without the check of lines 59-62.
isAlreadyScheduledNever(shoot) == FALSE

isAlreadyScheduled(shoot) == shoot.seedName # ""

\* Variant without the check of lines 64-67.
isMarkedForDeletionNever(shoot) == FALSE

\* Variant with the check of lines 64-67 inverted.
isMarkedForDeletionInverted(shoot) == ~shoot.deletionTimestamp

isMarkedForDeletion(shoot) == shoot.deletionTimestamp

reportEvent(r, eventType, eventReason, detail) ==
    [r EXCEPT !.events = Append(@, [type |-> eventType, reason |-> eventReason,
                                    detail |-> detail])]

reportFailedScheduling(r, err) ==
    reportEvent(r, "Warning", "ShootSchedulingFailed", err.kind)

\* return reconcile.Result{}, nil
returnDone(r) == [r EXCEPT !.pc = "idle", !.result = "done"]

\* Variant that drops the error: return reconcile.Result{}, nil
returnErrorAsDone(r, err) == [r EXCEPT !.pc = "idle", !.result = "done"]

\* return reconcile.Result{}, err
returnError(r, err) == [r EXCEPT !.pc = "idle", !.result = "retry", !.err = err]

\* Variant of the failure path that returns the error without the event.
failSchedulingSilent(r, err) == returnError(r, err)

\* Variant of the failure path that reports the event and returns nil.
failSchedulingSwallowed(r, err) == returnDone(reportFailedScheduling(r, err))

\* The failure path of lines 71-74 and 77-81.
failScheduling(r, err) == returnError(reportFailedScheduling(r, err), err)

\* A store operation fails (a transient error of the store).
StoreFault == budget.faults > 0 /\ budget' = [budget EXCEPT !.faults = @ - 1]

\* Lines 50-67: Get of the Shoot and the three early returns.  cost is what
\* the start of the reconcile takes from the bound on reconciles.
GetShootAt(w, cost) ==
    /\ rec[w].pc = "idle"
    /\ budget.reconciles >= cost
    /\ Cardinality({v \in ShootIds : rec[v].pc # "idle"}) < concurrentSyncs
    /\ LET r0 == [IdleReconcile EXCEPT !.ops = <<"getShoot">>]
           r1 == [r0 EXCEPT !.found = shoots[w].exists,
                            !.shoot = IF shoots[w].exists THEN shoots[w] ELSE ZeroShoot,
                            !.readVersion = resourceVersion[w]]
       IN \/ /\ budget.faults > 0
             /\ budget' = [budget EXCEPT !.faults = @ - 1, !.reconciles = @ - cost]
             /\ rec' = [rec EXCEPT ![w] = returnError(r0, Err("StoreReadError", 0, {}))]
          \/ /\ budget' = [budget EXCEPT !.reconciles = @ - cost]
             /\ rec' = [rec EXCEPT ![w] =
                    IF ~shoots[w].exists THEN returnDone(r1)
                    ELSE IF isAlreadyScheduled(shoots[w]) THEN returnDone(r1)
                    ELSE IF isMarkedForDeletion(shoots[w]) THEN returnDone(r1)
                    ELSE [r1 EXCEPT !.pc = "listSeeds"]]
    /\ UNCHANGED <<seeds, shoots, cloudProfile, resourceVersion, strategy, concurrentSyncs>>
    /\ UNCHANGED siblings

\* A reconcile request for w is handed to a free worker.
GetShoot(w) == GetShootAt(w, 1)

\* Lines 113-116: List of the Seeds.
ListSeeds(w) ==
    /\ rec[w].pc = "listSeeds"
    /\ LET r0 == [rec[w] EXCEPT !.ops = Append(@, "listSeeds")]
       IN \/ /\ StoreFault
             /\ rec' = [rec EXCEPT ![w] = failScheduling(r0, Err("StoreReadError", 0, {}))]
          \/ /\ rec' = [rec EXCEPT ![w] = [r0 EXCEPT !.seedList = seeds, !.pc = "listShoots"]]
             /\ UNCHANGED budget
    /\ UNCHANGED <<seeds, shoots, cloudProfile, resourceVersion, strategy, concurrentSyncs>>
    /\ UNCHANGED siblings

\* Lines 117-120: List of the Shoots.
ListShoots(w) ==
    /\ rec[w].pc = "listShoots"
    /\ LET r0 == [rec[w] EXCEPT !.ops = Append(@, "listShoots")]
       IN \/ /\ StoreFault
             /\ rec' = [rec EXCEPT ![w] = failScheduling(r0, Err("StoreReadError", 0, {}))]
          \/ /\ rec' = [rec EXCEPT ![w] =
                    [r0 EXCEPT !.shootList = ListShootsOf(shoots), !.pc = "getCloudProfile"]]
             /\ UNCHANGED budget
    /\ UNCHANGED <<seeds, shoots, cloudProfile, resourceVersion, strategy, concurrentSyncs>>
    /\ UNCHANGED siblings

\* Variant without the error check of lines 71-74.
afterDetermineSeedIgnoringError(r, res) ==
    [r EXCEPT !.seed = res.seed, !.shoot.seedName = res.seed.name, !.pc = "bind"]

\* Lines 71-76: the error check after determineSeed and the assignment of
\* shoot.Spec.SeedName on the local copy.
afterDetermineSeed(r, res) ==
    IF res.err.kind = "panic: nil pointer dereference"
    THEN [r EXCEPT !.pc = "idle", !.result = "panic", !.err = res.err]
    ELSE IF res.err # NoErr THEN failScheduling(r, res.err)
    ELSE [r EXCEPT !.seed = res.seed, !.shoot.seedName = res.seed.name, !.pc = "bind"]

\* Lines 125-153 and 70-76: the pipeline on the snapshots of the reconcile.
schedule(r, cp) ==
    afterDetermineSeed([r EXCEPT !.cp = <<cp>>],
                       determineSeed(r.shoot, r.seedList, r.shootList, cp, strategy))

\* Lines 121-153: Get of the CloudProfile, then the pipeline.
GetCloudProfile(w) ==
    /\ rec[w].pc = "getCloudProfile"
    /\ LET r0 == [rec[w] EXCEPT !.ops = Append(@, "getCloudProfile")]
           got == GetCloudProfileOf(cloudProfile, rec[w].shoot.cloudProfileName)
       IN \/ /\ StoreFault
             /\ rec' = [rec EXCEPT ![w] = failScheduling(r0, Err("StoreReadError", 0, {}))]
          \/ /\ got = <<>>
             /\ rec' = [rec EXCEPT ![w] = failScheduling(r0, Err("NotFound", 0, {}))]
             /\ UNCHANGED budget
          \/ /\ got # <<>>
             /\ rec' = [rec EXCEPT ![w] = schedule(r0, got[1])]
             /\ UNCHANGED budget
    /\ UNCHANGED <<seeds, shoots, cloudProfile, resourceVersion, strategy, concurrentSyncs>>
    /\ UNCHANGED siblings

\* Variant with the error check of line 77 inverted.
afterUpdateInverted(r, outcome) ==
    IF outcome = "ok" THEN failScheduling(r, Err("StoreWriteError", 0, {}))
    ELSE returnDone(reportEvent([r EXCEPT !.wrote = TRUE], "Normal",
                                "ShootSchedulingSuccessful", r.seed.name))

\* Lines 77-92: the update of the binding subresource and the events.
afterUpdate(r, outcome) ==
    IF outcome # "ok" THEN failScheduling(r, Err(outcome, 0, {}))
    ELSE returnDone(reportEvent([r EXCEPT !.wrote = TRUE], "Normal",
                                "ShootSchedulingSuccessful", r.seed.name))

UpdateBinding(w) ==
    /\ rec[w].pc = "bind"
    /\ LET r0 == [rec[w] EXCEPT !.ops = Append(@, "updateBinding")]
           outcome == bindingUpdateOutcome(shoots[w], resourceVersion[w], rec[w].readVersion)
       IN \/ /\ StoreFault
             /\ rec' = [rec EXCEPT ![w] = afterUpdate(r0, "StoreWriteError")]
             /\ UNCHANGED <<shoots, resourceVersion>>
          \/ /\ rec' = [rec EXCEPT ![w] = afterUpdate(r0, outcome)]
             /\ IF outcome = "ok"
                THEN /\ shoots' = [shoots EXCEPT ![w].seedName = r0.shoot.seedName]
                     /\ resourceVersion' = [resourceVersion EXCEPT ![w] = @ + 1]
                ELSE UNCHANGED <<shoots, resourceVersion>>
             /\ UNCHANGED budget
    /\ UNCHANGED <<seeds, cloudProfile, strategy, concurrentSyncs>>
    /\ UNCHANGED siblings

(***************************************************************************)
(* Other actors on the store.                                              *)
(***************************************************************************)
ExternalWrite == budget.extWrites > 0 /\ budget' = [budget EXCEPT !.extWrites = @ - 1]

\* Another actor binds an unscheduled Shoot.
ExternalBind(w, i) ==
    /\ ExternalWrite
    /\ shoots[w].exists /\ shoots[w].seedName = ""
    /\ i \in 1..Len(seeds)
    /\ shoots' = [shoots EXCEPT ![w].seedName = seeds[i].name]
    /\ resourceVersion' = [resourceVersion EXCEPT ![w] = @ + 1]
    /\ UNCHANGED <<seeds, cloudProfile, strategy, concurrentSyncs, rec>>
    /\ UNCHANGED siblings

(***************************************************************************)
(* The inputs.  Objects are a base object with one aspect varied.          *)
(***************************************************************************)
RegionEU == <<"e", "u">>
RegionEU2 == <<"e", "u", "2">>
RegionUS == <<"u", "s">>
\* A region code of n characters x.
LongRegion(n) == [i \in 1..n |-> "x"]

Cidr(lo, hi) == [lo |-> lo, hi |-> hi]
ReadyConditions ==
    <<[type |-> SeedBootstrapped, status |-> ConditionTrue],
      [type |-> SeedGardenletReady, status |-> ConditionTrue]>>

SeedNames == <<"s1", "s2", "s3", "s4">>

BaseSeed(n) ==
    [name |-> n, deletionTimestamp |-> FALSE, visible |-> TRUE,
     conditions |-> ReadyConditions, backup |-> FALSE, labels |-> {"env=prod"},
     providerType |-> "aws", region |-> RegionEU, zones |-> <<"a", "b", "c">>,
     nodes |-> <<Cidr(0, 1)>>, pods |-> Cidr(2, 3), services |-> Cidr(4, 5),
     shootDefaults |-> <<[pods |-> <<Cidr(6, 7)>>, services |-> <<Cidr(8, 9)>>]>>,
     taints |-> {}, allocatable |-> <<>>]

SeedVariant(n, k) ==
    LET b == BaseSeed(n)
    IN CASE k = "base" -> b
         [] k = "deleting" -> [b EXCEPT !.deletionTimestamp = TRUE]
         [] k = "hidden" -> [b EXCEPT !.visible = FALSE]
         [] k = "notBootstrapped" -> [b EXCEPT !.conditions = Tail(ReadyConditions)]
         [] k = "bootstrapFailed" ->
                [b EXCEPT !.conditions =
                    <<[type |-> SeedBootstrapped, status |-> "False"]>> \o Tail(ReadyConditions)]
         [] k = "gardenletUnknown" ->
                [b EXCEPT !.conditions =
                    <<Head(ReadyConditions), [type |-> SeedGardenletReady, status |-> "Unknown"]>>]
         [] k = "noGardenlet" -> [b EXCEPT !.conditions = <<Head(ReadyConditions)>>]
         [] k = "backupNotReady" -> [b EXCEPT !.backup = TRUE]
         [] k = "backupFailed" ->
                [b EXCEPT !.backup = TRUE,
                          !.conditions = Append(ReadyConditions,
                              [type |-> SeedBackupBucketsReady, status |-> "False"])]
         [] k = "backupReady" ->
                [b EXCEPT !.backup = TRUE,
                          !.conditions = Append(ReadyConditions,
                              [type |-> SeedBackupBucketsReady, status |-> ConditionTrue])]
         [] k = "unlabelled" -> [b EXCEPT !.labels = {}]
         [] k = "dev" -> [b EXCEPT !.labels = {"env=dev"}]
         [] k = "gcp" -> [b EXCEPT !.providerType = "gcp"]
         [] k = "us" -> [b EXCEPT !.region = RegionUS]
         [] k = "eu2" -> [b EXCEPT !.region = RegionEU2]
         [] k = "gcpUS" -> [b EXCEPT !.providerType = "gcp", !.region = RegionUS]
         [] k = "twoZones" -> [b EXCEPT !.zones = <<"a", "b">>]
         [] k = "wideServices" -> [b EXCEPT !.services = Cidr(12, 15)]
         [] k = "noDefaults" -> [b EXCEPT !.shootDefaults = <<>>]
         [] k = "badDefaults" ->
                [b EXCEPT !.shootDefaults =
                    <<[pods |-> <<Cidr(10, 11)>>, services |-> <<Cidr(8, 9)>>]>>]
         [] k = "tainted" -> [b EXCEPT !.taints = {[key |-> "quarantine", value |-> <<>>]}]
         [] k = "taintedValue" ->
                [b EXCEPT !.taints = {[key |-> "quarantine", value |-> <<"on">>]}]
         [] k = "cap0" -> [b EXCEPT !.allocatable = <<0>>]
         [] k = "x" -> [b EXCEPT !.region = LongRegion(1)]
         [] k = "xx" -> [b EXCEPT !.region = LongRegion(2)]
         [] k = "xGcp" -> [b EXCEPT !.region = LongRegion(1), !.providerType = "gcp"]
         [] k = "wideServicesTainted" ->
                [b EXCEPT !.services = Cidr(12, 15),
                          !.taints = {[key |-> "quarantine", value |-> <<>>]}]
         [] k = "wideServicesCap0" ->
                [b EXCEPT !.services = Cidr(12, 15), !.allocatable = <<0>>]
         [] k = "taintedCap0" ->
                [b EXCEPT !.taints = {[key |-> "quarantine", value |-> <<>>]},
                          !.allocatable = <<0>>]
         [] k = "wideServicesTaintedCap0" ->
                [b EXCEPT !.services = Cidr(12, 15),
                          !.taints = {[key |-> "quarantine", value |-> <<>>]},
                          !.allocatable = <<0>>]
         [] k = "cap1" -> [b EXCEPT !.allocatable = <<1>>]
         [] k = "cap2" -> [b EXCEPT !.allocatable = <<2>>]

UsabilityKinds ==
    {"base", "deleting", "hidden", "notBootstrapped", "bootstrapFailed",
     "gardenletUnknown", "noGardenlet", "backupNotReady", "backupFailed", "backupReady"}
CapacityKinds == {"base", "cap0", "cap1", "cap2"}
MixedKinds ==
    {"base", "unlabelled", "gcp", "us", "twoZones", "wideServices", "tainted", "cap1"}
EligibilityKinds == {"base", "wideServices", "badDefaults", "tainted", "taintedValue"}
SelectorKinds == {"base", "unlabelled", "dev"}
ConcurrentKinds == {"base", "cap1"}

\* The Seed lists of at most MaxSeeds Seeds whose Seeds are of the given kinds.
SeedLists(kinds) ==
    UNION {{[i \in 1..n |-> SeedVariant(SeedNames[i], f[i])] : f \in [1..n -> kinds]} :
              n \in 0..MaxSeeds}

BaseShoot(id) ==
    [name |-> id, exists |-> TRUE, deletionTimestamp |-> FALSE, seedName |-> "",
     cloudProfileName |-> "cp", region |-> RegionEU, providerType |-> "aws",
     purpose |-> "", failureToleranceType |-> "", nodes |-> <<Cidr(10, 11)>>,
     pods |-> <<Cidr(12, 13)>>, services |-> <<Cidr(14, 15)>>,
     tolerations |-> {}, seedSelector |-> <<>>]

Selector(labels) == <<[labelSelector |-> [matchLabels |-> labels, valid |-> TRUE]]>>

ShootVariant(id, k) ==
    LET b == BaseShoot(id)
    IN CASE k = "base" -> b
         [] k = "testing" -> [b EXCEPT !.purpose = ShootPurposeTesting]
         [] k = "evaluation" -> [b EXCEPT !.purpose = "evaluation"]
         [] k = "zonal" -> [b EXCEPT !.failureToleranceType = FailureToleranceTypeZone]
         [] k = "node" -> [b EXCEPT !.failureToleranceType = "node"]
         [] k = "us" -> [b EXCEPT !.region = RegionUS]
         [] k = "gcp" -> [b EXCEPT !.providerType = "gcp"]
         [] k = "noPods" -> [b EXCEPT !.pods = <<>>, !.services = <<>>]
         [] k = "nodesOverlap" -> [b EXCEPT !.nodes = <<Cidr(2, 3)>>]
         [] k = "tolerant" ->
                [b EXCEPT !.tolerations = {[key |-> "quarantine", value |-> <<>>]}]
         [] k = "tolerantOther" ->
                [b EXCEPT !.tolerations = {[key |-> "quarantine", value |-> <<"off">>]}]
         [] k = "selectsProd" -> [b EXCEPT !.seedSelector = Selector({"env=prod"})]
         [] k = "selectsDev" -> [b EXCEPT !.seedSelector = Selector({"env=dev"})]
         [] k = "noProfile" -> [b EXCEPT !.cloudProfileName = "missing"]
         [] k = "x999" -> [b EXCEPT !.region = LongRegion(InitialMinDistance - 1)]
         [] k = "x1000" -> [b EXCEPT !.region = LongRegion(InitialMinDistance)]
         [] k = "x1001" -> [b EXCEPT !.region = LongRegion(InitialMinDistance + 1)]
         [] k = "x1002" -> [b EXCEPT !.region = LongRegion(InitialMinDistance + 2)]

CloudProfileVariant(k) ==
    LET sel(labels, valid, types) ==
            <<[labelSelector |-> [matchLabels |-> labels, valid |-> valid],
               providerTypes |-> types]>>
    IN [name |-> "cp",
        seedSelector |->
            CASE k = "base" -> <<>>
              [] k = "selectsProd" -> sel({"env=prod"}, TRUE, <<>>)
              [] k = "selectsAll" -> sel({}, TRUE, <<>>)
              [] k = "invalidSelector" -> sel({}, FALSE, <<>>)
              [] k = "anyProvider" -> sel({}, TRUE, <<WildcardProvider>>)
              [] k = "gcpOnly" -> sel({}, TRUE, <<"gcp">>)
              [] k = "awsAndGcp" -> sel({}, TRUE, <<"aws", "gcp">>)]

\* How a Shoot is found in the store at the start of a run.
ShootState(id, kind, st) ==
    LET b == ShootVariant(id, kind)
    IN CASE st = "absent" -> [ZeroShoot EXCEPT !.name = id]
         [] st = "unscheduled" -> b
         [] st = "deleting" -> [b EXCEPT !.deletionTimestamp = TRUE]
         [] st \in Range(SeedNames) -> [b EXCEPT !.seedName = st]

FreshReconciles == [id \in ShootIds |-> IdleReconcile]

\* The sibling controller before anything is created or watched.
IdleSeedController ==
    [seeds |-> <<>>, registrations |-> <<>>, shoot |-> <<>>, mapping |-> <<>>, last |-> <<>>]

\* The scheduler after construction for the given store content and configuration.
SchedulerAt(seedList, shootStore, cpStore, strat, syncs, limits) ==
    /\ seeds = seedList
    /\ shoots = shootStore
    /\ cloudProfile = cpStore
    /\ resourceVersion = [id \in ShootIds |-> 1]
    /\ strategy = strat
    /\ concurrentSyncs = syncs
    /\ rec = FreshReconciles
    /\ budget = limits

\* The state after construction for the given store content and configuration.
InitWith(seedList, shootStore, cpStore, strat, syncs, limits) ==
    /\ SchedulerAt(seedList, shootStore, cpStore, strat, syncs, limits)
    /\ crs = IdleSeedController

\* The Shoots of a store: each Shoot of the given kind, found as states[id].
ShootStore(kind, states) == [id \in ShootIds |-> ShootState(id, kind[id], states[id])]

AllBase == [id \in ShootIds |-> "base"]

(***************************************************************************)
(* Concurrent runs: a pool of two workers, other actors writing.           *)
(***************************************************************************)
Limits == [reconciles |-> MaxReconciles, faults |-> MaxFaults, extWrites |-> MaxExtWrites]

Init ==
    \E seedList \in SeedLists(ConcurrentKinds),
       xs \in {"unscheduled", "deleting", "s1"},
       ys \in {"unscheduled", "s1"} :
        InitWith(seedList, ShootStore(AllBase, [x |-> xs, y |-> ys, z |-> "absent"]),
                 <<CloudProfileVariant("base")>>, SameRegion, 2, Limits)

Next ==
    \/ \E w \in ShootIds : GetShoot(w)
    \/ \E w \in ShootIds : ListSeeds(w)
    \/ \E w \in ShootIds : ListShoots(w)
    \/ \E w \in ShootIds : GetCloudProfile(w)
    \/ \E w \in ShootIds : UpdateBinding(w)
    \/ \E w \in ShootIds, i \in 1..MaxSeeds : ExternalBind(w, i)

Spec == Init /\ [][Next]_vars

(***************************************************************************)
(* Single reconciles over the wide inputs: one worker, nobody else writes. *)
(***************************************************************************)
SeqLimits == [reconciles |-> MaxSeqReconciles, faults |-> 0, extWrites |-> 0]

\* The configurations (Shoot kind, CloudProfile kind, strategy) of the runs.
Configurations ==
    ({"base", "testing", "evaluation", "zonal", "node", "us", "gcp", "noPods",
      "nodesOverlap", "tolerant", "tolerantOther", "selectsProd", "selectsDev",
      "noProfile"} \X {"base"} \X {SameRegion})
    \cup ({"base"} \X {"selectsProd", "selectsAll", "invalidSelector", "anyProvider",
                        "gcpOnly", "awsAndGcp"} \X {SameRegion})
    \cup ({"base", "testing", "evaluation", "us"} \X {"base", "anyProvider"}
              \X {SameRegion, MinimalDistance, "Unknown"})

InitUsability ==
    \E seedList \in SeedLists(UsabilityKinds) :
        InitWith(seedList,
                 ShootStore(AllBase, [x |-> "unscheduled", y |-> "absent", z |-> "absent"]),
                 <<CloudProfileVariant("base")>>, SameRegion, 1, SeqLimits)

InitCapacity ==
    \E seedList \in SeedLists(CapacityKinds),
       ys \in {"absent", "s1", "s2"}, zs \in {"absent", "s1", "s2"} :
        InitWith(seedList,
                 ShootStore(AllBase, [x |-> "unscheduled", y |-> ys, z |-> zs]),
                 <<CloudProfileVariant("base")>>, SameRegion, 1, SeqLimits)

InitMixed ==
    \E seedList \in SeedLists(MixedKinds), c \in Configurations :
        InitWith(seedList,
                 ShootStore([AllBase EXCEPT !["x"] = c[1]],
                            [x |-> "unscheduled", y |-> "s1", z |-> "absent"]),
                 <<CloudProfileVariant(c[2])>>, c[3], 1, SeqLimits)

InitEligibility ==
    \E seedList \in SeedLists(EligibilityKinds),
       kind \in {"base", "noPods", "nodesOverlap", "tolerant", "tolerantOther"} :
        InitWith(seedList,
                 ShootStore([AllBase EXCEPT !["x"] = kind],
                            [x |-> "unscheduled", y |-> "absent", z |-> "absent"]),
                 <<CloudProfileVariant("base")>>, SameRegion, 1, SeqLimits)

\* Both selectors at once: the CloudProfile's and the Shoot's.
InitSelectors ==
    \E seedList \in SeedLists(SelectorKinds),
       ck \in {"base", "selectsProd", "selectsAll", "invalidSelector"},
       sk \in {"base", "selectsProd", "selectsDev"} :
        InitWith(seedList,
                 ShootStore([AllBase EXCEPT !["x"] = sk],
                            [x |-> "unscheduled", y |-> "absent", z |-> "absent"]),
                 <<CloudProfileVariant(ck)>>, SameRegion, 1, SeqLimits)

InitSeq == InitUsability \/ InitCapacity \/ InitMixed \/ InitEligibility

NextSeq ==
    \/ \E w \in ShootIds : GetShoot(w)
    \/ \E w \in ShootIds : ListSeeds(w)
    \/ \E w \in ShootIds : ListShoots(w)
    \/ \E w \in ShootIds : GetCloudProfile(w)
    \/ \E w \in ShootIds : UpdateBinding(w)

SpecSeq == InitSeq /\ [][NextSeq]_vars

\* Single reconciles over the selector inputs.
SpecSelectors == InitSelectors /\ [][NextSeq]_vars

\* Single reconciles over the usability, the capacity and the eligibility inputs.
SpecUsability == InitUsability /\ [][NextSeq]_vars
SpecCapacity == InitCapacity /\ [][NextSeq]_vars
SpecEligibility == InitEligibility /\ [][NextSeq]_vars

(***************************************************************************)
(* Single reconciles under MinimalDistance: Seeds of both provider types   *)
(* at region distances 0, 1 and 2 from the Shoot.                          *)
(***************************************************************************)
DistanceKinds == {"base", "gcp", "us", "gcpUS", "eu2"}

InitDistance ==
    \E seedList \in SeedLists(DistanceKinds), sk \in {"base", "us", "gcp"},
       ck \in {"base", "anyProvider"} :
        InitWith(seedList,
                 ShootStore([AllBase EXCEPT !["x"] = sk],
                            [x |-> "unscheduled", y |-> "absent", z |-> "absent"]),
                 <<CloudProfileVariant(ck)>>, MinimalDistance, 1, SeqLimits)

SpecDistance == InitDistance /\ [][NextSeq]_vars

(***************************************************************************)
(* Single reconciles over Seeds that fail one, two or all three of the     *)
(* eligibility checks.                                                     *)
(***************************************************************************)
RejectionKinds ==
    {"base", "wideServices", "tainted", "cap0", "wideServicesTainted", "wideServicesCap0",
     "taintedCap0", "wideServicesTaintedCap0"}

InitRejections ==
    \E seedList \in SeedLists(RejectionKinds), sk \in {"base", "tolerant", "noPods"} :
        InitWith(seedList,
                 ShootStore([AllBase EXCEPT !["x"] = sk],
                            [x |-> "unscheduled", y |-> "absent", z |-> "absent"]),
                 <<CloudProfileVariant("base")>>, SameRegion, 1, SeqLimits)

SpecRejections == InitRejections /\ [][NextSeq]_vars

(***************************************************************************)
(* Single reconciles over longer Seed lists in which every stage has a     *)
(* Seed to drop.                                                           *)
(***************************************************************************)
StageKinds == {"base", "hidden", "unlabelled", "gcp", "twoZones", "tainted", "us"}

\* (Shoot kind, CloudProfile kind, strategy)
StageConfigurations ==
    {<<"zonal", "base", SameRegion>>,
     <<"selectsProd", "selectsAll", SameRegion>>,
     <<"base", "selectsProd", SameRegion>>,
     <<"base", "base", SameRegion>>,
     <<"base", "anyProvider", MinimalDistance>>,
     <<"us", "anyProvider", MinimalDistance>>}

\* The Seed lists of at most max Seeds whose Seeds are of the given kinds.
SeedListsUpTo(kinds, max) ==
    UNION {{[i \in 1..n |-> SeedVariant(SeedNames[i], f[i])] : f \in [1..n -> kinds]} :
              n \in 0..max}

InitStages ==
    \E seedList \in SeedListsUpTo(StageKinds, MaxStageSeeds), c \in StageConfigurations :
        InitWith(seedList,
                 ShootStore([AllBase EXCEPT !["x"] = c[1]],
                            [x |-> "unscheduled", y |-> "s1", z |-> "absent"]),
                 <<CloudProfileVariant(c[2])>>, c[3], 1, SeqLimits)

SpecStages == InitStages /\ [][NextSeq]_vars

(***************************************************************************)
(* Reconciles one at a time: one worker, nobody else writes, every         *)
(* reconcile reads anew.  The Seeds publish a capacity or none, and no     *)
(* Seed hosts more Shoots than it publishes at the start.                  *)
(***************************************************************************)
SerialLimits == [reconciles |-> MaxReconciles, faults |-> MaxFaults, extWrites |-> 0]

\* Number of Shoots of the store bound to the Seed.
HostedShoots(store, seedName) ==
    Cardinality({id \in ShootIds : store[id].exists /\ store[id].seedName = seedName})

WithinCapacity(seedList, store) ==
    \A i \in 1..Len(seedList) :
        seedList[i].allocatable # <<>> =>
            HostedShoots(store, seedList[i].name) <= seedList[i].allocatable[1]

InitSerial ==
    \E seedList \in SeedLists(CapacityKinds),
       xs \in {"unscheduled", "s1"}, ys \in {"unscheduled", "s1", "s2"},
       zs \in {"unscheduled", "absent", "s2"} :
        /\ WithinCapacity(seedList, ShootStore(AllBase, [x |-> xs, y |-> ys, z |-> zs]))
        /\ InitWith(seedList, ShootStore(AllBase, [x |-> xs, y |-> ys, z |-> zs]),
                    <<CloudProfileVariant("base")>>, SameRegion, 1, SerialLimits)

SpecSerial == InitSerial /\ [][NextSeq]_vars

(***************************************************************************)
(* Reconciles one at a time from a store without bound Shoots, over Seeds  *)
(* that publish no capacity and pass every stage for every Shoot.          *)
(***************************************************************************)
BalanceKinds == {"base", "noDefaults"}

InitBalance ==
    \E seedList \in SeedLists(BalanceKinds),
       xs \in {"unscheduled", "deleting"}, ys \in {"unscheduled", "absent"},
       zs \in {"unscheduled", "absent"}, strat \in {SameRegion, MinimalDistance} :
        InitWith(seedList, ShootStore(AllBase, [x |-> xs, y |-> ys, z |-> zs]),
                 <<CloudProfileVariant("base")>>, strat, 1, SerialLimits)

SpecBalance == InitBalance /\ [][NextSeq]_vars

(***************************************************************************)
(* Single reconciles under MinimalDistance at the starting value of the    *)
(* running minimum: Shoots whose region code is 999 to 1002 characters     *)
(* long, Seeds whose region code is its first one or two characters.       *)
(***************************************************************************)
SentinelKinds == {"x", "xx", "xGcp"}

InitSentinel ==
    \E seedList \in SeedLists(SentinelKinds), sk \in {"x999", "x1000", "x1001", "x1002"} :
        InitWith(seedList,
                 ShootStore([AllBase EXCEPT !["x"] = sk],
                            [x |-> "unscheduled", y |-> "absent", z |-> "absent"]),
                 <<CloudProfileVariant("anyProvider")>>, MinimalDistance, 1, SeqLimits)

SpecSentinel == InitSentinel /\ [][NextSeq]_vars

\* Single reconciles under MinimalDistance over the near regions and over the
\* regions around the starting value of the running minimum.
InitNearest == InitDistance \/ InitSentinel

SpecNearest == InitNearest /\ [][NextSeq]_vars

(***************************************************************************)
(* Reads that fail: store faults at any of the four reads, a Shoot that is *)
(* gone, a CloudProfile that is not in the store.                          *)
(***************************************************************************)
ReadLimits == [reconciles |-> MaxReconciles, faults |-> MaxFaults, extWrites |-> 0]

InitReads ==
    \E seedList \in SeedLists({"base"}), sk \in {"base", "noProfile"},
       ys \in {"absent", "unscheduled"}, cpStore \in {<<>>, <<CloudProfileVariant("base")>>} :
        InitWith(seedList,
                 ShootStore([AllBase EXCEPT !["x"] = sk],
                            [x |-> "unscheduled", y |-> ys, z |-> "absent"]),
                 cpStore, SameRegion, 2, ReadLimits)

SpecReads == InitReads /\ [][NextSeq]_vars

(***************************************************************************)
(* Retries: the work-queue holds a request for every Shoot at start-up and *)
(* takes a request back whenever Reconcile returns an error; a request     *)
(* whose reconcile returned nil is forgotten.  Requests are served for as  *)
(* long as they are queued.                                                *)
(***************************************************************************)
Queued(w) == rec[w].pc = "idle" /\ rec[w].result \in {"none", "retry"}

\* A worker takes the queued request of w.
Dequeue(w) == Queued(w) /\ GetShootAt(w, 0)

\* The gardenlet of Seed i reports the Seed ready.
ExternalSeedBecomesReady(i) ==
    /\ ExternalWrite
    /\ i \in 1..Len(seeds)
    /\ seeds[i].conditions # ReadyConditions
    /\ seeds' = [seeds EXCEPT ![i].conditions = ReadyConditions]
    /\ UNCHANGED <<shoots, cloudProfile, resourceVersion, strategy, concurrentSyncs, rec>>
    /\ UNCHANGED siblings

LiveKinds == {"base", "noGardenlet"}
LiveLimits == [reconciles |-> 0, faults |-> MaxFaults, extWrites |-> MaxExtWrites]

InitLive ==
    \E seedList \in SeedLists(LiveKinds), xs \in {"unscheduled", "deleting"},
       ys \in {"absent", "unscheduled"} :
        InitWith(seedList, ShootStore(AllBase, [x |-> xs, y |-> ys, z |-> "absent"]),
                 <<CloudProfileVariant("base")>>, SameRegion, 1, LiveLimits)

NextLive ==
    \/ \E w \in ShootIds : Dequeue(w)
    \/ \E w \in ShootIds : ListSeeds(w)
    \/ \E w \in ShootIds : ListShoots(w)
    \/ \E w \in ShootIds : GetCloudProfile(w)
    \/ \E w \in ShootIds : UpdateBinding(w)
    \/ \E i \in 1..MaxSeeds : ExternalSeedBecomesReady(i)

\* Weak fairness of the work-queue and of the worker serving a request.  The
\* Get of the CloudProfile is enabled exactly while the reconcile waits for
\* it and every such step leaves that position, so weak fairness of that
\* step is that the reconcile is infinitely often not waiting for it.
Fairness ==
    \A w \in ShootIds :
        /\ WF_vars(Dequeue(w))
        /\ WF_vars(ListSeeds(w))
        /\ WF_vars(ListShoots(w))
        /\ []<>(rec[w].pc # "getCloudProfile")
        /\ WF_vars(UpdateBinding(w))

SpecLive == InitLive /\ [][NextLive]_vars /\ Fairness

\* A scheduler with an empty store that starts no reconcile.
IdleScheduler ==
    SchedulerAt(<<>>, ShootStore(AllBase, [x |-> "absent", y |-> "absent", z |-> "absent"]),
                <<>>, SameRegion, 1, [reconciles |-> 0, faults |-> 0, extWrites |-> 0])

(***************************************************************************)
(* The controllerregistration-seed controller (package seed): its watches  *)
(* turn events on Seeds, Shoots, BackupBuckets, BackupEntries,             *)
(* ControllerInstallations, ControllerRegistrations and                    *)
(* ControllerDeployments into reconcile requests for Seeds.  A request is  *)
(* the name of a Seed; nil and the empty list of requests are <<>>.  A     *)
(* slice is [isNil, items], a pointer is <<>> (nil) or <<value>>, and      *)
(* seedName "" is the nil seedName.  The mappers read the store when they  *)
(* handle an event, MapControllerDeploymentToAllSeeds twice (the           *)
(* ControllerRegistrations, then the Seeds), and other actors write to it  *)
(* at any time, between the two reads too.                                 *)
(***************************************************************************)
Slice(items) == [isNil |-> FALSE, items |-> items]
NilSlice == [isNil |-> TRUE, items |-> <<>>]

\* apiequality.Semantic.DeepEqual on slices: a nil and an empty slice are equal.
SemanticDeepEqual(a, b) == a.items = b.items

\* obj.(*gardencorev1beta1.Shoot)
IsShoot(obj) == obj.kind = "Shoot"

\* Variant whose UpdateFunc lets every update through.
ShootPredicateAnyUpdate(type, old, new) ==
    CASE type = "create" -> IsShoot(new) /\ new.seedName # ""
      [] type = "update" -> IsShoot(new) /\ IsShoot(old)
      [] type = "delete" -> IsShoot(old) /\ old.seedName # ""

\* CreateFunc on new, UpdateFunc on old and new, DeleteFunc on old.
ShootPredicate(type, old, new) ==
    CASE type = "create" -> IsShoot(new) /\ new.seedName # ""
      [] type = "update" ->
             /\ IsShoot(new)
             /\ IsShoot(old)
             /\ \/ old.seedName # new.seedName
                \/ ~SemanticDeepEqual(old.workers, new.workers)
                \/ ~SemanticDeepEqual(old.extensions, new.extensions)
                \/ old.dns # new.dns
                \/ old.networkingType # new.networkingType
                \/ old.providerType # new.providerType
      [] type = "delete" -> IsShoot(old) /\ old.seedName # ""

MapShootToSeed(obj) ==
    IF ~IsShoot(obj) THEN <<>>
    ELSE IF obj.seedName = "" THEN <<>>
    ELSE <<obj.seedName>>

\* The Shoot watch: the predicate, then the mapper on the object of the
\* event (the new object of an update).
shootWatch(type, old, new) ==
    IF ~ShootPredicate(type, old, new) THEN <<>>
    ELSE IF type = "delete" THEN MapShootToSeed(old)
    ELSE MapShootToSeed(new)

\* A request for every Seed of the list, nil if the list fails.
MapToAllSeeds(seedNames, listFails) == IF listFails THEN <<>> ELSE seedNames

RECURSIVE refsLoop(_, _)
\* The inner loop: some ref of the list names the ControllerDeployment.
refsLoop(refs, name) ==
    IF refs = <<>> THEN FALSE
    ELSE IF Head(refs) = name THEN TRUE
    ELSE refsLoop(Tail(refs), name)

RECURSIVE registrationsLoopAnyDeployment(_, _)
\* Variant that does not compare the names of the refs.
registrationsLoopAnyDeployment(registrations, name) ==
    IF registrations = <<>> THEN FALSE
    ELSE IF Head(registrations).deployment = <<>>
    THEN registrationsLoopAnyDeployment(Tail(registrations), name)
    ELSE TRUE

RECURSIVE registrationsLoop(_, _)
\* The outer loop: TRUE where the code returns r.MapToAllSeeds from inside it.
registrationsLoop(registrations, name) ==
    IF registrations = <<>> THEN FALSE
    ELSE IF Head(registrations).deployment = <<>> THEN registrationsLoop(Tail(registrations), name)
    ELSE IF refsLoop(Head(registrations).deployment[1].deploymentRefs, name) THEN TRUE
    ELSE registrationsLoop(Tail(registrations), name)

\* MapControllerDeploymentToAllSeeds up to its call of MapToAllSeeds: TRUE
\* where it makes the call, FALSE where it has returned nil before.
callsMapToAllSeeds(obj, registrations, registrationListFails) ==
    IF obj.kind # "ControllerDeployment" THEN FALSE
    ELSE IF registrationListFails THEN FALSE
    ELSE registrationsLoop(registrations, obj.name)

\* The requests for the registrations and the Seeds as the two Lists return them.
MapControllerDeploymentToAllSeeds(obj, registrations, registrationListFails, seedNames, seedListFails) ==
    IF callsMapToAllSeeds(obj, registrations, registrationListFails)
    THEN MapToAllSeeds(seedNames, seedListFails)
    ELSE <<>>

\* The Shoots of the watch: each field from a small set.
WatchedShoots ==
    [kind : {"Shoot"}, seedName : {"", "s1", "s2"},
     workers : {NilSlice, Slice(<<>>), Slice(<<"w1">>)},
     extensions : {NilSlice, Slice(<<"e1">>)},
     dns : {<<>>, <<"example.org">>},
     networkingType : {"calico", "cilium"},
     providerType : {"aws", "gcp"},
     region : {"eu", "us"}]

\* An object of another kind delivered to the Shoot watch.
NotAShoot ==
    [kind |-> "Seed", seedName |-> "s1", workers |-> NilSlice, extensions |-> NilSlice,
     dns |-> <<>>, networkingType |-> "calico", providerType |-> "aws", region |-> "eu"]

ShootFields ==
    {"seedName", "workers", "extensions", "dns", "networkingType", "providerType", "region"}

\* The values of one field.
FieldValues(field) == {shoot[field] : shoot \in WatchedShoots}

ShootWatchEvent(type, old, new) ==
    [kind |-> "Shoot", type |-> type, old |-> old, new |-> new,
     passed |-> ShootPredicate(type, IF old = <<>> THEN NotAShoot ELSE old[1],
                               IF new = <<>> THEN NotAShoot ELSE new[1]),
     requests |-> shootWatch(type, IF old = <<>> THEN NotAShoot ELSE old[1],
                             IF new = <<>> THEN NotAShoot ELSE new[1])]

\* A Shoot (or an object of another kind) is created.
ShootCreated(obj) ==
    /\ crs.shoot = <<>>
    /\ crs' = [crs EXCEPT !.shoot = <<obj>>, !.last = <<ShootWatchEvent("create", <<>>, <<obj>>)>>]
    /\ UNCHANGED scheduler

\* The Shoot is updated: one field is written (possibly with the value it has).
ShootUpdated(field, value) ==
    /\ crs.shoot # <<>>
    /\ IsShoot(crs.shoot[1])
    /\ crs' = [crs EXCEPT !.shoot = <<[crs.shoot[1] EXCEPT ![field] = value]>>,
                          !.last = <<ShootWatchEvent("update", crs.shoot,
                                         <<[crs.shoot[1] EXCEPT ![field] = value]>>)>>]
    /\ UNCHANGED scheduler

\* The Shoot is deleted.
ShootDeleted ==
    /\ crs.shoot # <<>>
    /\ crs' = [crs EXCEPT !.shoot = <<>>, !.last = <<ShootWatchEvent("delete", crs.shoot, <<>>)>>]
    /\ UNCHANGED scheduler

\* e.Object.(*gardencorev1beta1.Seed) and the like.
IsSeed(obj) == obj.kind = "Seed"
IsBackupBucket(obj) == obj.kind = "BackupBucket"
IsBackupEntry(obj) == obj.kind = "BackupEntry"
IsControllerInstallation(obj) == obj.kind = "ControllerInstallation"

\* No CreateFunc and no DeleteFunc: every create and delete passes.
SeedPredicate(type, old, new) ==
    CASE type = "create" -> TRUE
      [] type = "update" ->
             /\ IsSeed(new)
             /\ IsSeed(old)
             /\ \/ old.dnsProvider # new.dnsProvider
                \/ new.deletionTimestamp
      [] type = "delete" -> TRUE

\* For(Seed): an event that passes enqueues the Seed of the event itself.
seedWatch(type, old, new) ==
    IF ~SeedPredicate(type, old, new) THEN <<>>
    ELSE IF type = "delete" THEN <<old.name>>
    ELSE <<new.name>>

BackupBucketPredicate(type, old, new) ==
    CASE type = "create" -> IsBackupBucket(new) /\ new.seedName # ""
      [] type = "update" ->
             /\ IsBackupBucket(new)
             /\ IsBackupBucket(old)
             /\ \/ old.seedName # new.seedName
                \/ old.providerType # new.providerType
      [] type = "delete" -> IsBackupBucket(old) /\ old.seedName # ""

MapBackupBucketToSeed(obj) ==
    IF ~IsBackupBucket(obj) THEN <<>>
    ELSE IF obj.seedName = "" THEN <<>>
    ELSE <<obj.seedName>>

\* The BackupBucket watch: the predicate, then the mapper on the object of the event.
backupBucketWatch(type, old, new) ==
    IF ~BackupBucketPredicate(type, old, new) THEN <<>>
    ELSE IF type = "delete" THEN MapBackupBucketToSeed(old)
    ELSE MapBackupBucketToSeed(new)

BackupEntryPredicate(type, old, new) ==
    CASE type = "create" -> IsBackupEntry(new) /\ new.seedName # ""
      [] type = "update" ->
             /\ IsBackupEntry(new)
             /\ IsBackupEntry(old)
             /\ \/ old.seedName # new.seedName
                \/ old.bucketName # new.bucketName
      [] type = "delete" -> IsBackupEntry(old) /\ old.seedName # ""

MapBackupEntryToSeed(obj) ==
    IF ~IsBackupEntry(obj) THEN <<>>
    ELSE IF obj.seedName = "" THEN <<>>
    ELSE <<obj.seedName>>

\* The BackupEntry watch: the predicate, then the mapper on the object of the event.
backupEntryWatch(type, old, new) ==
    IF ~BackupEntryPredicate(type, old, new) THEN <<>>
    ELSE IF type = "delete" THEN MapBackupEntryToSeed(old)
    ELSE MapBackupEntryToSeed(new)

\* The ControllerInstallation has a condition of type Required with status True.
IsControllerInstallationRequired(obj) ==
    \E i \in 1..Len(obj.conditions) :
        obj.conditions[i].type = "Required" /\ obj.conditions[i].status = "True"

\* CreateFunc is true whatever the object, DeleteFunc is false.
ControllerInstallationPredicate(type, old, new) ==
    CASE type = "create" -> TRUE
      [] type = "update" ->
             /\ IsControllerInstallation(new)
             /\ IsControllerInstallation(old)
             /\ IsControllerInstallationRequired(old) # IsControllerInstallationRequired(new)
      [] type = "delete" -> FALSE

\* No check of the name: an empty seedRef.name gives a request with an empty name.
MapControllerInstallationToSeed(obj) ==
    IF ~IsControllerInstallation(obj) THEN <<>>
    ELSE <<obj.seedRefName>>

\* The ControllerInstallation watch: the predicate, then the mapper on the
\* object of the event.
controllerInstallationWatch(type, old, new) ==
    IF ~ControllerInstallationPredicate(type, old, new) THEN <<>>
    ELSE IF type = "delete" THEN MapControllerInstallationToSeed(old)
    ELSE MapControllerInstallationToSeed(new)

\* The objects delivered to the other watches: each field from a small set.
WatchedSeeds ==
    [kind : {"Seed"}, name : {"s1"}, dnsProvider : {<<>>, <<"p1">>},
     deletionTimestamp : BOOLEAN]

WatchedBackupBuckets ==
    [kind : {"BackupBucket"}, seedName : {"", "s1", "s2"}, providerType : {"aws", "gcp"}]

WatchedBackupEntries ==
    [kind : {"BackupEntry"}, seedName : {"", "s1", "s2"}, bucketName : {"b1", "b2"}]

WatchedControllerInstallations ==
    [kind : {"ControllerInstallation"}, seedRefName : {"", "s1"},
     conditions : {<<>>, <<[type |-> "Required", status |-> "False"]>>,
                   <<[type |-> "Valid", status |-> "True"],
                     [type |-> "Required", status |-> "True"]>>}]

\* An object of another kind delivered to one of these watches.
NotOfTheKind ==
    [kind |-> "Shoot", name |-> "s2", dnsProvider |-> <<>>, deletionTimestamp |-> FALSE,
     seedName |-> "s2", providerType |-> "aws", bucketName |-> "b1", seedRefName |-> "s2",
     conditions |-> <<>>]

\* What a watch did with an event: whether its predicate let it pass, and
\* the requests enqueued.
WatchEvent(kind, type, passed, requests) ==
    [kind |-> kind, type |-> type, passed |-> passed, requests |-> requests]

\* The events a watch can deliver for objects of the set: a create, an
\* update or a delete, <<type, old, new>>.
EventsOf(objects) ==
    {<<"create", obj, obj>> : obj \in objects} \cup {<<"delete", obj, obj>> : obj \in objects}
        \cup {<<"update", old, new>> : old \in objects, new \in objects}

SeedEvent(type, old, new) ==
    /\ crs' = [crs EXCEPT !.last = <<WatchEvent("Seed", type, SeedPredicate(type, old, new),
                                                seedWatch(type, old, new))>>]
    /\ UNCHANGED scheduler

BackupBucketEvent(type, old, new) ==
    /\ crs' = [crs EXCEPT !.last = <<WatchEvent("BackupBucket", type,
                                                BackupBucketPredicate(type, old, new),
                                                backupBucketWatch(type, old, new))>>]
    /\ UNCHANGED scheduler

BackupEntryEvent(type, old, new) ==
    /\ crs' = [crs EXCEPT !.last = <<WatchEvent("BackupEntry", type,
                                                BackupEntryPredicate(type, old, new),
                                                backupEntryWatch(type, old, new))>>]
    /\ UNCHANGED scheduler

ControllerInstallationEvent(type, old, new) ==
    /\ crs' = [crs EXCEPT !.last = <<WatchEvent("ControllerInstallation", type,
                                                ControllerInstallationPredicate(type, old, new),
                                                controllerInstallationWatch(type, old, new))>>]
    /\ UNCHANGED scheduler

InitShootWatch ==
    /\ IdleScheduler
    /\ crs = IdleSeedController

\* The watches whose mappers read nothing but the object of the event: the
\* Shoot's, and those of the Seeds, BackupBuckets, BackupEntries and
\* ControllerInstallations.
NextShootWatch ==
    \/ \E obj \in WatchedShoots \cup {NotAShoot} : ShootCreated(obj)
    \/ \E field \in ShootFields : \E value \in FieldValues(field) : ShootUpdated(field, value)
    \/ ShootDeleted
    \/ \E e \in EventsOf(WatchedSeeds \cup {NotOfTheKind}) : SeedEvent(e[1], e[2], e[3])
    \/ \E e \in EventsOf(WatchedBackupBuckets \cup {NotOfTheKind}) :
           BackupBucketEvent(e[1], e[2], e[3])
    \/ \E e \in EventsOf(WatchedBackupEntries \cup {NotOfTheKind}) :
           BackupEntryEvent(e[1], e[2], e[3])
    \/ \E e \in EventsOf(WatchedControllerInstallations \cup {NotOfTheKind}) :
           ControllerInstallationEvent(e[1], e[2], e[3])

SpecShootWatch == InitShootWatch /\ [][NextShootWatch]_vars

\* The ControllerRegistrations of the store, by what their deployment is.
RegistrationKinds == {"noDeployment", "noRefs", "d1", "d2", "d2d1"}

RegistrationVariant(name, k) ==
    [name |-> name,
     deployment |->
         CASE k = "noDeployment" -> <<>>
           [] k = "noRefs" -> <<[deploymentRefs |-> <<>>]>>
           [] k = "d1" -> <<[deploymentRefs |-> <<"d1">>]>>
           [] k = "d2" -> <<[deploymentRefs |-> <<"d2">>]>>
           [] k = "d2d1" -> <<[deploymentRefs |-> <<"d2", "d1">>]>>]

RegistrationNames == <<"r1", "r2", "r3", "r4">>

RegistrationLists ==
    UNION {{[i \in 1..n |-> RegistrationVariant(RegistrationNames[i], f[i])] :
                f \in [1..n -> RegistrationKinds]} : n \in 0..MaxRegistrations}

\* The objects delivered to the ControllerDeployment watch.
DeploymentObjects ==
    {[kind |-> "ControllerDeployment", name |-> "d1"],
     [kind |-> "ControllerDeployment", name |-> "d3"],
     [kind |-> "ControllerRegistration", name |-> "d1"]}

\* What the ControllerDeployment watch did with an event.
ControllerDeploymentWatchEvent(type, obj, registrationListFails, seedListFails, requests) ==
    [kind |-> "ControllerDeployment", type |-> type, object |-> obj,
     registrationListFails |-> registrationListFails, seedListFails |-> seedListFails,
     requests |-> requests]

\* A create or update event of the ControllerDeployment watch: the mapper
\* lists the ControllerRegistrations and returns nil, or goes on to
\* MapToAllSeeds.  The watch handles one event at a time.
ControllerDeploymentEvent(type, obj, registrationListFails) ==
    /\ crs.mapping = <<>>
    /\ crs' = IF callsMapToAllSeeds(obj, crs.registrations, registrationListFails)
              THEN [crs EXCEPT !.mapping = <<[type |-> type, object |-> obj]>>]
              ELSE [crs EXCEPT !.last =
                        <<ControllerDeploymentWatchEvent(type, obj, registrationListFails,
                              FALSE, MapControllerDeploymentToAllSeeds(obj, crs.registrations,
                                         registrationListFails, <<>>, FALSE))>>]
    /\ UNCHANGED scheduler

\* The mapper's second read: MapToAllSeeds lists the Seeds and the mapper returns.
ControllerDeploymentListSeeds(seedListFails) ==
    /\ crs.mapping # <<>>
    /\ crs' = [crs EXCEPT !.mapping = <<>>,
                          !.last = <<ControllerDeploymentWatchEvent(crs.mapping[1].type,
                                         crs.mapping[1].object, FALSE, seedListFails,
                                         MapToAllSeeds(crs.seeds, seedListFails))>>]
    /\ UNCHANGED scheduler

\* A create or update event of the ControllerRegistration watch: the mapper
\* does not look at the object of the event, which may be gone from the
\* store by the time the event is handled.
ControllerRegistrationEvent(type, seedListFails) ==
    /\ crs' = [crs EXCEPT !.last =
                   <<[kind |-> "ControllerRegistration", type |-> type,
                      seedListFails |-> seedListFails,
                      requests |-> MapToAllSeeds(crs.seeds, seedListFails)]>>]
    /\ UNCHANGED scheduler

\* The names a Seed of the store can have, and the store's list of some of them.
StoreSeedNames == Range(SubSeq(SeedNames, 1, MaxSeeds))
SeedsNamed(names) == SelectSeq(SubSeq(SeedNames, 1, MaxSeeds), LAMBDA n : n \in names)

\* Another actor creates or deletes a Seed.
SeedCreated(name) ==
    /\ name \notin Range(crs.seeds)
    /\ crs' = [crs EXCEPT !.seeds = SeedsNamed(Range(crs.seeds) \cup {name})]
    /\ UNCHANGED scheduler

SeedDeleted(name) ==
    /\ name \in Range(crs.seeds)
    /\ crs' = [crs EXCEPT !.seeds = SeedsNamed(Range(crs.seeds) \ {name})]
    /\ UNCHANGED scheduler

\* The first name no ControllerRegistration of the list has.
FreeRegistrationName(registrations) ==
    RegistrationNames[CHOOSE i \in 1..Len(RegistrationNames) :
        /\ \A r \in Range(registrations) : r.name # RegistrationNames[i]
        /\ \A j \in 1..(i - 1) : \E r \in Range(registrations) : r.name = RegistrationNames[j]]

\* The list of the store for the given ControllerRegistrations, by name.
RegistrationNamesOf(set) == SelectSeq(RegistrationNames, LAMBDA n : \E r \in set : r.name = n)

RegistrationsOf(set) ==
    [i \in 1..Len(RegistrationNamesOf(set)) |->
        CHOOSE r \in set : r.name = RegistrationNamesOf(set)[i]]

\* Another actor creates, updates or deletes a ControllerRegistration.
RegistrationCreated(k) ==
    /\ Len(crs.registrations) < MaxRegistrations
    /\ crs' = [crs EXCEPT !.registrations =
                   RegistrationsOf(Range(@) \cup
                       {RegistrationVariant(FreeRegistrationName(crs.registrations), k)})]
    /\ UNCHANGED scheduler

RegistrationUpdated(i, k) ==
    /\ i \in 1..Len(crs.registrations)
    /\ crs.registrations[i] # RegistrationVariant(crs.registrations[i].name, k)
    /\ crs' = [crs EXCEPT !.registrations[i] = RegistrationVariant(@.name, k)]
    /\ UNCHANGED scheduler

RegistrationDeleted(i) ==
    /\ i \in 1..Len(crs.registrations)
    /\ crs' = [crs EXCEPT !.registrations = RegistrationsOf(Range(@) \ {crs.registrations[i]})]
    /\ UNCHANGED scheduler

InitDeploymentWatch ==
    /\ IdleScheduler
    /\ \E n \in 0..MaxSeeds, registrations \in RegistrationLists :
           crs = [IdleSeedController EXCEPT !.seeds = SubSeq(SeedNames, 1, n),
                                            !.registrations = registrations]

NextDeploymentWatch ==
    \/ \E type \in {"create", "update"}, obj \in DeploymentObjects,
          registrationListFails \in BOOLEAN :
           ControllerDeploymentEvent(type, obj, registrationListFails)
    \/ \E seedListFails \in BOOLEAN : ControllerDeploymentListSeeds(seedListFails)
    \/ \E type \in {"create", "update"}, seedListFails \in BOOLEAN :
           ControllerRegistrationEvent(type, seedListFails)
    \/ \E name \in StoreSeedNames : SeedCreated(name)
    \/ \E name \in StoreSeedNames : SeedDeleted(name)
    \/ \E k \in RegistrationKinds : RegistrationCreated(k)
    \/ \E i \in 1..MaxRegistrations, k \in RegistrationKinds : RegistrationUpdated(i, k)
    \/ \E i \in 1..MaxRegistrations : RegistrationDeleted(i)

SpecDeploymentWatch == InitDeploymentWatch /\ [][NextDeploymentWatch]_vars

(***************************************************************************)
(* Vocabulary of the properties.                                           *)
(***************************************************************************)
Completed(r) == r.pc = "idle" /\ r.result # "none"

IsSuccessEvent(e) == e.type = "Normal" /\ e.reason = "ShootSchedulingSuccessful"
IsFailedEvent(e) == e.type = "Warning" /\ e.reason = "ShootSchedulingFailed"

Succeeded(r) ==
    Completed(r) /\ r.result = "done" /\ \E i \in 1..Len(r.events) : IsSuccessEvent(r.events[i])

\* The reconcile entered determineSeed or the write and came back with an error.
SchedulingFailed(r) ==
    Completed(r) /\ r.result = "retry" /\ Len(r.ops) > 1

\* The step completes the reconcile of w.
Completes(w) == rec[w].pc # "idle" /\ rec'[w].pc = "idle"
\* The step is the first step of a reconcile of w.
Begins(w) == rec[w].pc = "idle" /\ rec'[w] # rec[w]
\* The step is a step of the scheduler.
SchedulerStep == rec' # rec

(***************************************************************************)
(* C1: once a Shoot's seedName is non-empty in the store no step changes   *)
(* it, and a reconcile that reads such a Shoot returns done after the one  *)
(* Get: no list, no pipeline, no event, no write.                          *)
(***************************************************************************)
C1_ScheduledShootIsNeverRescheduled ==
    [][\A w \in ShootIds :
          shoots[w].seedName # "" =>
              /\ shoots'[w].seedName = shoots[w].seedName
              /\ (Begins(w) /\ rec'[w].found) =>
                     /\ Completed(rec'[w]) /\ rec'[w].result = "done"
                     /\ rec'[w].ops = <<"getShoot">>
                     /\ rec'[w].events = <<>>
                     /\ ~rec'[w].wrote]_vars

\* Another actor bound Shoot w between a reconcile's read and its write and the
\* write was rejected as a conflict; a reconcile of the bound Shoot v returned
\* done after the Get.
C1_Witness ==
    \E w, v \in ShootIds :
        /\ w # v /\ budget.extWrites < MaxExtWrites
        /\ shoots[w].seedName # "" /\ rec[w].seed.name # ""
        /\ Completed(rec[w]) /\ rec[w].err.kind = "Conflict"
        /\ shoots[v].seedName # ""
        /\ Completed(rec[v]) /\ rec[v].result = "done" /\ rec[v].found
        /\ rec[v].shoot.seedName = shoots[v].seedName /\ rec[v].ops = <<"getShoot">>

(***************************************************************************)
(* C3: a reconcile whose determineSeed or binding write failed emitted     *)
(* exactly one ShootSchedulingFailed event and nothing else, returned the  *)
(* error, and its completing step left the store as it was; a              *)
(* SchedulingSuccessful event appears only in the step in which the store  *)
(* accepted the binding write.                                             *)
(***************************************************************************)
C3_FailureOutcome ==
    \A w \in ShootIds :
        LET r == rec[w]
        IN /\ (Completed(r) /\ Len(r.ops) > 1 /\ ~r.wrote) =>
                  /\ r.result = "retry" /\ r.err # NoErr
                  /\ Len(r.events) = 1 /\ IsFailedEvent(r.events[1])
           /\ (\E i \in 1..Len(r.events) : IsSuccessEvent(r.events[i])) =>
                  /\ r.wrote /\ r.result = "done" /\ Len(r.events) = 1
                  /\ r.ops[Len(r.ops)] = "updateBinding"

C3_FailureLeavesBinding ==
    \A w \in ShootIds :
        /\ (Completes(w) /\ rec'[w].result = "retry") =>
               (shoots' = shoots /\ resourceVersion' = resourceVersion)
        /\ (Completes(w) /\ rec'[w].events # <<>>
                /\ IsSuccessEvent(rec'[w].events[1])) =>
               /\ rec[w].pc = "bind"
               /\ resourceVersion[w] = rec[w].readVersion
               /\ shoots'[w].seedName = rec'[w].seed.name
               /\ resourceVersion'[w] = resourceVersion[w] + 1

C3_FailedSchedulingIsReported == []C3_FailureOutcome /\ [][C3_FailureLeavesBinding]_vars

\* A binding write was rejected as a conflict and a determineSeed failed for
\* want of an eligible Seed.
C3_Witness ==
    \E w, v \in ShootIds :
        /\ SchedulingFailed(rec[w]) /\ rec[w].err.kind = "Conflict"
        /\ rec[w].events = <<[type |-> "Warning", reason |-> "ShootSchedulingFailed",
                              detail |-> "Conflict"]>>
        /\ SchedulingFailed(rec[v]) /\ rec[v].err.kind = "NoEligibleCandidate"
        /\ shoots[v].exists /\ shoots[v].seedName = ""

(***************************************************************************)
(* C4: a reconcile that returned done without an event found the Shoot     *)
(* missing, already bound or marked for deletion, and issued no store      *)
(* operation besides the Get of the Shoot.                                 *)
(***************************************************************************)
C4_QuietDoneState ==
    \A w \in ShootIds :
        LET r == rec[w]
        IN (Completed(r) /\ r.result = "done" /\ r.events = <<>>) =>
               /\ ~r.found \/ r.shoot.seedName # "" \/ r.shoot.deletionTimestamp
               /\ r.ops = <<"getShoot">>
               /\ ~r.wrote

C4_QuietDoneStep ==
    \A w \in ShootIds :
        (rec'[w] # rec[w] /\ Completed(rec'[w]) /\ rec'[w].result = "done"
            /\ rec'[w].events = <<>>) =>
            /\ ~shoots[w].exists \/ shoots[w].seedName # "" \/ shoots[w].deletionTimestamp
            /\ shoots' = shoots /\ seeds' = seeds

C4_QuietDoneOnlyOnEarlyReturn == []C4_QuietDoneState /\ [][C4_QuietDoneStep]_vars

\* The three early returns have all happened.
C4_Witness ==
    /\ Completed(rec["z"]) /\ rec["z"].result = "done" /\ ~rec["z"].found
    /\ Completed(rec["y"]) /\ rec["y"].result = "done" /\ rec["y"].shoot.seedName # ""
    /\ Completed(rec["x"]) /\ rec["x"].result = "done" /\ rec["x"].shoot.deletionTimestamp
    /\ \A w \in ShootIds : rec[w].events = <<>> /\ rec[w].ops = <<"getShoot">>

(***************************************************************************)
(* C5: a step of the scheduler changes the store only when it completes a  *)
(* reconcile with success, and then it changes the seedName of the         *)
(* reconciled Shoot from empty to the chosen Seed's name and nothing else  *)
(* (the store's version counter of that object aside).                     *)
(***************************************************************************)
C5_Frame ==
    SchedulerStep =>
        /\ seeds' = seeds
        /\ cloudProfile' = cloudProfile
        /\ \A w \in ShootIds :
               IF Completes(w) /\ Succeeded(rec'[w])
               THEN /\ shoots[w].seedName = "" /\ rec'[w].seed.name # ""
                    /\ shoots'[w] = [shoots[w] EXCEPT !.seedName = rec'[w].seed.name]
               ELSE /\ shoots'[w] = shoots[w]
                    /\ resourceVersion'[w] = resourceVersion[w]

C5_OnlySeedNameIsWritten == [][C5_Frame]_vars

\* Two reconciles succeeded; the store differs from a store with no binding
\* of theirs in the two seedNames only.
C5_Witness ==
    /\ Succeeded(rec["x"]) /\ Succeeded(rec["y"])
    /\ shoots["x"] = [BaseShoot("x") EXCEPT !.seedName = rec["x"].seed.name]
    /\ shoots["y"] = [BaseShoot("y") EXCEPT !.seedName = rec["y"].seed.name]

(***************************************************************************)
(* The stage predicates of section 4.2, written per Seed over the          *)
(* snapshots a reconcile read (r.seedList, r.shootList, r.cp).             *)
(***************************************************************************)
RanPipeline(r) == Completed(r) /\ r.cp # <<>>

HasTrueCondition(seed, type) ==
    \E i \in 1..Len(seed.conditions) :
        /\ seed.conditions[i].type = type
        /\ seed.conditions[i].status = ConditionTrue
        /\ \A j \in 1..(i - 1) : seed.conditions[j].type # type

Unusable(seed) ==
    \/ seed.deletionTimestamp
    \/ ~seed.visible
    \/ ~HasTrueCondition(seed, SeedBootstrapped)
    \/ ~HasTrueCondition(seed, SeedGardenletReady)
    \/ (seed.backup /\ ~HasTrueCondition(seed, SeedBackupBucketsReady))

MatchesSelector(selector, seed) ==
    \/ selector = <<>>
    \/ /\ selector[1].labelSelector.valid
       /\ \A l \in selector[1].labelSelector.matchLabels : l \in seed.labels

MatchesProviderRule(cp, shoot, seed) ==
    LET enabled == IF cp.seedSelector = <<>> THEN {}
                   ELSE Range(cp.seedSelector[1].providerTypes)
    IN \/ enabled = {} /\ seed.providerType = shoot.providerType
       \/ WildcardProvider \in enabled
       \/ seed.providerType \in enabled

MeetsZoneRequirement(shoot, seed) ==
    shoot.failureToleranceType = FailureToleranceTypeZone
        => Len(seed.zones) >= MinZonesForZonalControlPlane

\* The Shoots of the snapshot whose seedName is the Seed's name.
BoundShoots(shootList, seedName) ==
    Cardinality({k \in 1..Len(shootList) : shootList[k].seedName = seedName})

HasCapacity(shootList, seed) ==
    seed.allocatable # <<>> => BoundShoots(shootList, seed.name) < seed.allocatable[1]

Eligible(shoot, shootList, seed) ==
    /\ networksAreDisjointed(seed, shoot)
    /\ TaintsAreTolerated(seed.taints, shoot.tolerations)
    /\ HasCapacity(shootList, seed)

\* Stages A to E.
PassesFilters(r, seed) ==
    /\ ~Unusable(seed)
    /\ MatchesSelector(r.cp[1].seedSelector, seed)
    /\ MatchesSelector(r.shoot.seedSelector, seed)
    /\ MatchesProviderRule(r.cp[1], r.shoot, seed)
    /\ MeetsZoneRequirement(r.shoot, seed)
    /\ Eligible(r.shoot, r.shootList, seed)

\* Stage F, the minimum of the minimal-distance branch taken over the Seeds
\* that passed stages A to E.
PassesStrategy(r, seed) ==
    IF r.shoot.purpose = ShootPurposeTesting
    THEN seed.providerType = r.shoot.providerType
    ELSE IF strategy = SameRegion
    THEN seed.providerType = r.shoot.providerType /\ seed.region = r.shoot.region
    ELSE /\ strategy = MinimalDistance
         /\ \A j \in 1..Len(r.seedList) :
                PassesFilters(r, r.seedList[j]) =>
                    penalisedDistance(seed, r.shoot) <= penalisedDistance(r.seedList[j], r.shoot)

\* The positions in the Seed list snapshot of the Seeds that pass stages A-F.
Survivors(r) ==
    {j \in 1..Len(r.seedList) :
        PassesFilters(r, r.seedList[j]) /\ PassesStrategy(r, r.seedList[j])}

\* The positions of the Seed a reconcile chose.
ChosenAt(r) == {i \in 1..Len(r.seedList) : r.seedList[i] = r.seed}

(***************************************************************************)
(* C2: after a reconcile that returned done with the success event, the    *)
(* Shoot's seedName in the store names a Seed of the Seed list that        *)
(* reconcile read, and that Seed passes every stage predicate (usable,     *)
(* both selectors, provider rule, zones, eligibility, strategy) evaluated  *)
(* on the reconcile's own snapshots.                                       *)
(***************************************************************************)
C2_BoundSeedSatisfiesEveryStage ==
    \A w \in ShootIds :
        Succeeded(rec[w]) =>
            /\ shoots[w].seedName = rec[w].seed.name
            /\ \E i \in 1..Len(rec[w].seedList) :
                   /\ rec[w].seedList[i].name = shoots[w].seedName
                   /\ rec[w].seedList[i] = rec[w].seed
                   /\ PassesFilters(rec[w], rec[w].seedList[i])
                   /\ PassesStrategy(rec[w], rec[w].seedList[i])

\* A Shoot with a zonal control plane was bound to the second Seed of the
\* list, the first one having fewer than three zones.
C2_Witness ==
    \E w \in ShootIds :
        /\ Succeeded(rec[w])
        /\ rec[w].shoot.failureToleranceType = FailureToleranceTypeZone
        /\ Len(rec[w].seedList) >= 2
        /\ ~MeetsZoneRequirement(rec[w].shoot, rec[w].seedList[1])
        /\ ~Unusable(rec[w].seedList[1])
        /\ shoots[w].seedName = rec[w].seedList[2].name

(***************************************************************************)
(* C6: the Seed a pipeline run returned has the least number of bound      *)
(* Shoots (counted by seedName in the Shoot list snapshot) among the Seeds *)
(* that pass stages A-F: no survivor has strictly fewer.                   *)
(***************************************************************************)
C6_ChosenSeedHasLeastShoots ==
    \A w \in ShootIds :
        (RanPipeline(rec[w]) /\ rec[w].seed # ZeroSeed) =>
            /\ ChosenAt(rec[w]) \cap Survivors(rec[w]) # {}
            /\ \A j \in Survivors(rec[w]) :
                   BoundShoots(rec[w].shootList, rec[w].seed.name)
                       <= BoundShoots(rec[w].shootList, rec[w].seedList[j].name)

\* The chosen Seed comes later in the list than a survivor with strictly
\* more bound Shoots.
C6_Witness ==
    \E w \in ShootIds :
        /\ Succeeded(rec[w])
        /\ \E i \in ChosenAt(rec[w]), j \in Survivors(rec[w]) :
               /\ j < i
               /\ BoundShoots(rec[w].shootList, rec[w].seedList[j].name)
                      > BoundShoots(rec[w].shootList, rec[w].seed.name)

(***************************************************************************)
(* C7: the outcome of a pipeline run is a function of its inputs: it fails *)
(* exactly when no Seed of the snapshot passes stages A-F, and otherwise   *)
(* returns the survivor with the least bound Shoots that comes first in    *)
(* the Seed list snapshot.                                                 *)
(***************************************************************************)
C7_FirstOfLeast(r) ==
    CHOOSE i \in Survivors(r) :
        \A j \in Survivors(r) :
            \/ BoundShoots(r.shootList, r.seedList[i].name)
                   < BoundShoots(r.shootList, r.seedList[j].name)
            \/ /\ BoundShoots(r.shootList, r.seedList[i].name)
                      = BoundShoots(r.shootList, r.seedList[j].name)
               /\ i <= j

C7_PipelineIsDeterministic ==
    \A w \in ShootIds :
        RanPipeline(rec[w]) =>
            IF Survivors(rec[w]) = {}
            THEN rec[w].seed = ZeroSeed /\ rec[w].result \in {"retry", "panic"}
            ELSE /\ rec[w].seed = rec[w].seedList[C7_FirstOfLeast(rec[w])]
                 /\ rec[w].shoot.seedName = rec[w].seed.name

\* Two survivors tie at the least count and the first of them was returned.
C7_Witness ==
    \E w \in ShootIds :
        /\ Succeeded(rec[w])
        /\ \E i, j \in Survivors(rec[w]) :
               /\ i < j
               /\ rec[w].seed = rec[w].seedList[i]
               /\ BoundShoots(rec[w].shootList, rec[w].seedList[i].name)
                      = BoundShoots(rec[w].shootList, rec[w].seedList[j].name)

(***************************************************************************)
(* C8: the capacity check looks at the reconcile's snapshot only.  Every   *)
(* reconcile that bound a Shoot to a Seed publishing allocatable K counted *)
(* fewer than K Shoots on it in its own snapshot and had its write         *)
(* accepted, whatever the store holds by then; in the witness two          *)
(* reconciles that both read before either wrote fill a Seed hosting K-1   *)
(* Shoots up to K+1.                                                       *)
(***************************************************************************)
C8_HostedShoots(seedName) ==
    Cardinality({v \in ShootIds : shoots[v].exists /\ shoots[v].seedName = seedName})

C8_CapacityCheckIsAdvisory ==
    \A w \in ShootIds :
        (Succeeded(rec[w]) /\ rec[w].seed.allocatable # <<>>) =>
            /\ BoundShoots(rec[w].shootList, rec[w].seed.name) < rec[w].seed.allocatable[1]
            /\ rec[w].wrote
            /\ shoots[w].seedName = rec[w].seed.name
            /\ resourceVersion[w] > rec[w].readVersion

C8_Witness ==
    \E w, v \in ShootIds, i \in 1..Len(seeds) :
        /\ w # v /\ seeds[i].allocatable # <<>>
        /\ Succeeded(rec[w]) /\ Succeeded(rec[v])
        /\ rec[w].seed = seeds[i] /\ rec[v].seed = seeds[i]
        /\ BoundShoots(rec[w].shootList, seeds[i].name) = seeds[i].allocatable[1] - 1
        /\ BoundShoots(rec[v].shootList, seeds[i].name) = seeds[i].allocatable[1] - 1
        /\ \E k \in 1..Len(rec[w].shootList) :
               rec[w].shootList[k].name = v /\ rec[w].shootList[k].seedName = ""
        /\ \E k \in 1..Len(rec[v].shootList) :
               rec[v].shootList[k].name = w /\ rec[v].shootList[k].seedName = ""
        /\ budget.extWrites = MaxExtWrites
        /\ C8_HostedShoots(seeds[i].name) = seeds[i].allocatable[1] + 1

(***************************************************************************)
(* C9: in a pipeline run, a Seed entering the eligibility stage with       *)
(* allocatable K is dropped when the snapshot counts K or more Shoots on   *)
(* it and, its networks and taints being acceptable, kept when it counts   *)
(* fewer; a Seed without allocatable is never dropped for capacity; a      *)
(* chosen Seed with allocatable K counted fewer than K.                    *)
(***************************************************************************)
C9_CapacityReason == "seed does not have available capacity for shoots"

C9_CapacityRule(r) ==
    LET shoot == [r.shoot EXCEPT !.seedName = ""]
        entering == stageZones(shoot, r.seedList, r.cp[1])
        out == filterCandidates(shoot, r.shootList, entering.seeds)
        kept(seed) == \E k \in 1..Len(out.seeds) : out.seeds[k] = seed
    IN /\ entering.err = NoErr =>
            \A j \in 1..Len(entering.seeds) :
                LET seed == entering.seeds[j]
                    n == BoundShoots(r.shootList, seed.name)
                    otherwiseFine ==
                        /\ networksAreDisjointed(seed, shoot)
                        /\ TaintsAreTolerated(seed.taints, shoot.tolerations)
                IN /\ (seed.allocatable # <<>> /\ n >= seed.allocatable[1]) => ~kept(seed)
                   /\ (seed.allocatable # <<>> /\ n < seed.allocatable[1] /\ otherwiseFine)
                          => kept(seed)
                   /\ (seed.allocatable = <<>> /\ otherwiseFine) => kept(seed)
                   /\ (<<seed.name, C9_CapacityReason>> \in out.err.detail) <=>
                          /\ out.err # NoErr /\ otherwiseFine
                          /\ seed.allocatable # <<>> /\ n >= seed.allocatable[1]
                   /\ out.err # NoErr => r.err = out.err
       /\ (r.seed # ZeroSeed /\ r.seed.allocatable # <<>>) =>
              BoundShoots(r.shootList, r.seed.name) < r.seed.allocatable[1]

C9_CapacityRejectsAtOrAboveK ==
    \A w \in ShootIds : RanPipeline(rec[w]) => C9_CapacityRule(rec[w])

\* A Seed with allocatable K and K Shoots was passed over for a Seed with
\* allocatable K' and K'-1 Shoots.
C9_Witness ==
    \E w \in ShootIds :
        /\ Succeeded(rec[w])
        /\ rec[w].seed.allocatable # <<>>
        /\ BoundShoots(rec[w].shootList, rec[w].seed.name) = rec[w].seed.allocatable[1] - 1
        /\ \E j \in 1..Len(rec[w].seedList) :
               /\ rec[w].seedList[j].allocatable # <<>>
               /\ rec[w].seedList[j].allocatable[1] > 0
               /\ BoundShoots(rec[w].shootList, rec[w].seedList[j].name)
                      = rec[w].seedList[j].allocatable[1]

(***************************************************************************)
(* C10: the Seed a reconcile bound was, in the Seed list that reconcile    *)
(* read, not marked for deletion, visible, Bootstrapped and GardenletReady *)
(* with status True and, with backup configured, BackupBucketsReady with   *)
(* status True; a run over a list without such a Seed fails with the       *)
(* error "none of the N seeds is valid for scheduling", N the length of    *)
(* the list.                                                               *)
(***************************************************************************)
C10_OnlyUsableSeedsAreBound ==
    \A w \in ShootIds :
        LET r == rec[w]
        IN /\ (r.wrote \/ Succeeded(r)) =>
                  /\ \A i \in 1..Len(r.seedList) :
                         r.seedList[i].name = shoots[w].seedName => ~Unusable(r.seedList[i])
                  /\ \E i \in 1..Len(r.seedList) : r.seedList[i].name = shoots[w].seedName
           /\ (RanPipeline(r) /\ \A i \in 1..Len(r.seedList) : Unusable(r.seedList[i])) =>
                  /\ SchedulingFailed(r) /\ ~r.wrote
                  /\ r.err.kind = "NoUsableSeed" /\ r.err.n = Len(r.seedList)
                  /\ shoots[w].seedName = ""

\* The Shoot was bound to the second Seed of the list, the first one having
\* backup configured and no BackupBucketsReady condition.
C10_Witness ==
    \E w \in ShootIds :
        /\ Succeeded(rec[w])
        /\ Len(rec[w].seedList) >= 2
        /\ rec[w].seedList[1].backup /\ Unusable(rec[w].seedList[1])
        /\ ~rec[w].seedList[1].deletionTimestamp /\ rec[w].seedList[1].visible
        /\ shoots[w].seedName = rec[w].seedList[2].name

(***************************************************************************)
(* C11: under the SameRegion strategy a Shoot whose purpose is not testing *)
(* is bound only to a Seed of its own region and provider type, whatever   *)
(* the CloudProfile's providerTypes admitted in the provider stage; when   *)
(* no Seed that passes stages A-E has that region and provider type the    *)
(* reconcile fails without a write.                                        *)
(***************************************************************************)
C11_SameRegionKeepsRegionAndProvider ==
    \A w \in ShootIds :
        LET r == rec[w]
            applies == /\ RanPipeline(r) /\ strategy = SameRegion
                       /\ r.shoot.purpose # ShootPurposeTesting
        IN /\ (applies /\ r.seed # ZeroSeed) =>
                  /\ r.seed.region = r.shoot.region
                  /\ r.seed.providerType = r.shoot.providerType
                  /\ shoots[w].seedName = r.seed.name
           /\ (applies /\ ~\E j \in 1..Len(r.seedList) :
                              /\ PassesFilters(r, r.seedList[j])
                              /\ r.seedList[j].region = r.shoot.region
                              /\ r.seedList[j].providerType = r.shoot.providerType) =>
                  /\ SchedulingFailed(r) /\ ~r.wrote /\ r.seed = ZeroSeed
                  /\ shoots[w].seedName = ""

\* The wildcard admitted a Seed of another provider in the Shoot's region,
\* first in the list; the Shoot was bound to the Seed after it.
C11_Witness ==
    \E w \in ShootIds :
        /\ Succeeded(rec[w]) /\ strategy = SameRegion
        /\ rec[w].shoot.purpose # ShootPurposeTesting
        /\ rec[w].cp[1].seedSelector # <<>>
        /\ WildcardProvider \in Range(rec[w].cp[1].seedSelector[1].providerTypes)
        /\ Len(rec[w].seedList) >= 2
        /\ PassesFilters(rec[w], rec[w].seedList[1])
        /\ rec[w].seedList[1].providerType # rec[w].shoot.providerType
        /\ rec[w].seedList[1].region = rec[w].shoot.region
        /\ shoots[w].seedName = rec[w].seedList[2].name

(***************************************************************************)
(* C12: for a Shoot whose purpose is testing the strategy stage returns,   *)
(* under every strategy value, the Seeds of its input whose provider type  *)
(* is the Shoot's, in input order, and fails when there is none; the Seed  *)
(* the run returned is one of them, so it has the Shoot's provider type,   *)
(* whatever its region.                                                    *)
(***************************************************************************)
C12_Strategies == {SameRegion, MinimalDistance, "Unknown", ""}

C12_TestingRule(r) ==
    LET shoot == [r.shoot EXCEPT !.seedName = ""]
        entering == stageCandidates(shoot, r.seedList, r.shootList, r.cp[1])
        expected ==
            SelectSeq(entering.seeds, LAMBDA seed : seed.providerType = shoot.providerType)
    IN entering.err = NoErr =>
           /\ \A s \in C12_Strategies :
                  /\ applyStrategy(shoot, entering.seeds, s).seeds = expected
                  /\ applyStrategy(shoot, entering.seeds, s).err # NoErr <=> expected = <<>>
           /\ expected # <<>> =>
                  /\ \E k \in 1..Len(expected) : expected[k] = r.seed
                  /\ r.seed.providerType = shoot.providerType
           /\ expected = <<>> =>
                  /\ SchedulingFailed(r) /\ r.err.kind = "NoMatchingSeedCandidate"
                  /\ r.seed = ZeroSeed

C12_TestingIgnoresRegionAndStrategy ==
    \A w \in ShootIds :
        (RanPipeline(rec[w]) /\ rec[w].shoot.purpose = ShootPurposeTesting) =>
            C12_TestingRule(rec[w])

\* Under an unrecognised strategy a testing Shoot was bound to a Seed of its
\* provider in another region, a Seed of its own region and another provider
\* coming first in the list.
C12_Witness ==
    \E w \in ShootIds :
        /\ Succeeded(rec[w]) /\ rec[w].shoot.purpose = ShootPurposeTesting
        /\ strategy \notin {SameRegion, MinimalDistance}
        /\ Len(rec[w].seedList) >= 2
        /\ PassesFilters(rec[w], rec[w].seedList[1])
        /\ rec[w].seedList[1].region = rec[w].shoot.region
        /\ rec[w].seedList[1].providerType # rec[w].shoot.providerType
        /\ shoots[w].seedName = rec[w].seedList[2].name
        /\ rec[w].seedList[2].region # rec[w].shoot.region

(***************************************************************************)
(* C13: when the strategy stage is reached for a Shoot whose purpose is    *)
(* not testing (a Shoot without a purpose included) under a strategy other *)
(* than SameRegion and MinimalDistance, the reconcile ends with one        *)
(* ShootSchedulingFailed event and retry-with-error, without a write.      *)
(***************************************************************************)
C13_ReachedStrategyStage(r) ==
    /\ RanPipeline(r)
    /\ stageCandidates([r.shoot EXCEPT !.seedName = ""], r.seedList, r.shootList,
                       r.cp[1]).err = NoErr

C13_UnknownStrategyIsAnError ==
    \A w \in ShootIds :
        (/\ C13_ReachedStrategyStage(rec[w])
         /\ rec[w].shoot.purpose # ShootPurposeTesting
         /\ strategy \notin {SameRegion, MinimalDistance}) =>
            /\ SchedulingFailed(rec[w])
            /\ rec[w].err.kind = "UnknownStrategy"
            /\ Len(rec[w].events) = 1 /\ IsFailedEvent(rec[w].events[1])
            /\ ~rec[w].wrote /\ shoots[w].seedName = ""

(***************************************************************************)
(* C14: the provider stage keeps a Seed exactly when the CloudProfile's    *)
(* providerTypes are empty or absent and the Seed's provider type is the   *)
(* Shoot's, or they contain "*", or they contain the Seed's provider type; *)
(* it fails, with the input cardinality, exactly when it keeps none.  A    *)
(* list with "*" keeps every Seed; a non-empty list without "*" and        *)
(* without the Shoot's provider type drops the Seeds of that type.         *)
(***************************************************************************)
C14_ProviderRule(r) ==
    LET shoot == [r.shoot EXCEPT !.seedName = ""]
        cp == r.cp[1]
        entering == stageShootSelector(shoot, r.seedList, cp)
        out == filterSeedsMatchingProviders(cp, shoot, entering.seeds)
        enabled == IF cp.seedSelector = <<>> THEN {}
                   ELSE Range(cp.seedSelector[1].providerTypes)
        expected ==
            SelectSeq(entering.seeds,
                   LAMBDA seed :
                       \/ enabled = {} /\ seed.providerType = shoot.providerType
                       \/ "*" \in enabled
                       \/ seed.providerType \in enabled)
    IN entering.err = NoErr =>
           /\ out.seeds = expected
           /\ out.err # NoErr <=> expected = <<>>
           /\ out.err # NoErr =>
                  /\ r.err = Err("NoSeedMatchesProvider", Len(entering.seeds), {})
                  /\ SchedulingFailed(r)
           /\ "*" \in enabled => out.seeds = entering.seeds
           /\ (enabled # {} /\ "*" \notin enabled /\ shoot.providerType \notin enabled) =>
                  \A k \in 1..Len(out.seeds) : out.seeds[k].providerType # shoot.providerType

C14_ProviderStageMatchesRule ==
    \A w \in ShootIds : RanPipeline(rec[w]) => C14_ProviderRule(rec[w])

\* The CloudProfile enables one provider type, not the Shoot's: of a Seed of
\* the Shoot's provider and a Seed of the enabled one the stage kept the
\* second only.
C14_Witness ==
    \E w \in ShootIds :
        /\ RanPipeline(rec[w])
        /\ rec[w].cp[1].seedSelector # <<>>
        /\ rec[w].cp[1].seedSelector[1].providerTypes = <<"gcp">>
        /\ rec[w].shoot.providerType = "aws"
        /\ Len(rec[w].seedList) = 2
        /\ rec[w].seedList[1].providerType = "aws"
        /\ stageShootSelector(rec[w].shoot, rec[w].seedList, rec[w].cp[1]).seeds
               = rec[w].seedList
        /\ stageProviders(rec[w].shoot, rec[w].seedList, rec[w].cp[1]).seeds
               = <<rec[w].seedList[2]>>

(***************************************************************************)
(* C15 as stated: under the MinimalDistance strategy, for a Shoot whose    *)
(* purpose is not testing, the strategy stage returns, for its input and   *)
(* for every reordering of it, exactly the Seeds whose penalised distance  *)
(* (edit distance of the regions, plus 2 for a Seed of another provider    *)
(* type) is the least penalised distance of the input, in input order; the *)
(* Seed the run returned is one of them.                                   *)
(***************************************************************************)
C15_Penalised(seed, shoot) ==
    distance(seed.region, shoot.region) + (IF seed.providerType = shoot.providerType THEN 0 ELSE 2)

C15_AtMinimum(list, shoot) ==
    SelectSeq(list,
           LAMBDA seed : \A k \in 1..Len(list) :
                             C15_Penalised(seed, shoot) <= C15_Penalised(list[k], shoot))

C15_Reorderings(list) ==
    {[i \in 1..Len(list) |-> list[p[i]]] :
        p \in {q \in [1..Len(list) -> 1..Len(list)] :
                  \A i, j \in 1..Len(list) : q[i] = q[j] => i = j}}

C15_MinimalDistanceRule(r) ==
    LET shoot == [r.shoot EXCEPT !.seedName = ""]
        entering == stageCandidates(shoot, r.seedList, r.shootList, r.cp[1])
    IN entering.err = NoErr =>
           /\ \A list \in C15_Reorderings(entering.seeds) :
                  /\ applyStrategy(shoot, list, MinimalDistance).seeds
                         = C15_AtMinimum(list, shoot)
                  /\ applyStrategy(shoot, list, MinimalDistance).err = NoErr
           /\ \E k \in 1..Len(C15_AtMinimum(entering.seeds, shoot)) :
                  C15_AtMinimum(entering.seeds, shoot)[k] = r.seed

C15_MinimalDistanceKeepsTheNearest ==
    \A w \in ShootIds :
        (/\ RanPipeline(rec[w]) /\ strategy = MinimalDistance
         /\ rec[w].shoot.purpose # ShootPurposeTesting) => C15_MinimalDistanceRule(rec[w])

C15_Sentinel == 1000

C15_SomeSeedWithinTheSentinel(r) ==
    \E k \in 1..Len(stageCandidates([r.shoot EXCEPT !.seedName = ""], r.seedList,
                                     r.shootList, r.cp[1]).seeds) :
        C15_Penalised(stageCandidates([r.shoot EXCEPT !.seedName = ""], r.seedList,
                                      r.shootList, r.cp[1]).seeds[k], r.shoot) <= C15_Sentinel

C15_NoneIsKept(r) ==
    stageCandidates([r.shoot EXCEPT !.seedName = ""], r.seedList, r.shootList, r.cp[1]).err = NoErr =>
        \A list \in C15_Reorderings(stageCandidates([r.shoot EXCEPT !.seedName = ""], r.seedList,
                                                    r.shootList, r.cp[1]).seeds) :
            applyStrategy([r.shoot EXCEPT !.seedName = ""], list, MinimalDistance).seeds = <<>>

(***************************************************************************)
(* C15, amended: under the MinimalDistance strategy, for a Shoot whose     *)
(* purpose is not testing and an input of which some Seed has a penalised  *)
(* distance of at most 1000, the strategy stage returns, for its input and *)
(* for every reordering of it, exactly the Seeds whose penalised distance  *)
(* is the least penalised distance of the input, in input order, and the   *)
(* Seed the run returned is one of them; for an input of which every Seed  *)
(* has a penalised distance above 1000 the stage keeps none, in every      *)
(* order.                                                                  *)
(***************************************************************************)
C15_NearestAreKeptWithinTheSentinel ==
    \A w \in ShootIds :
        (/\ RanPipeline(rec[w]) /\ strategy = MinimalDistance
         /\ rec[w].shoot.purpose # ShootPurposeTesting)
            => IF C15_SomeSeedWithinTheSentinel(rec[w])
               THEN C15_MinimalDistanceRule(rec[w])
               ELSE C15_NoneIsKept(rec[w])

\* A Seed of another provider in the Shoot's region and a Seed of the Shoot's
\* provider in another region tie at the least penalised distance, which the
\* penalty makes 2; the stage kept both.
C15_Witness ==
    \E w \in ShootIds :
        /\ Succeeded(rec[w]) /\ strategy = MinimalDistance
        /\ rec[w].shoot.purpose # ShootPurposeTesting
        /\ Len(rec[w].seedList) = 2
        /\ rec[w].seedList[1].providerType # rec[w].shoot.providerType
        /\ rec[w].seedList[1].region = rec[w].shoot.region
        /\ rec[w].seedList[2].providerType = rec[w].shoot.providerType
        /\ rec[w].seedList[2].region # rec[w].shoot.region
        /\ C15_Penalised(rec[w].seedList[1], rec[w].shoot) = 2
        /\ stageStrategy([rec[w].shoot EXCEPT !.seedName = ""], rec[w].seedList,
                         rec[w].shootList, rec[w].cp[1], strategy).seeds = rec[w].seedList

(***************************************************************************)
(* C16: a Shoot whose failure tolerance type is zone is bound only to a    *)
(* Seed with at least three zones, and its run fails when none of the      *)
(* Seeds entering the zone stage has three; for every other Shoot the zone *)
(* stage returns its input list as it is.                                  *)
(***************************************************************************)
C16_ZoneRule(r) ==
    LET shoot == [r.shoot EXCEPT !.seedName = ""]
        entering == stageProviders(shoot, r.seedList, r.cp[1])
        out == filterSeedsForZonalShootControlPlanes(entering.seeds, shoot)
        zonal == shoot.failureToleranceType = "zone"
    IN /\ (zonal /\ r.seed # ZeroSeed) => Len(r.seed.zones) >= 3
       /\ entering.err = NoErr =>
              /\ ~zonal => (out.seeds = entering.seeds /\ out.err = NoErr)
              /\ zonal =>
                     /\ out.seeds = SelectSeq(entering.seeds, LAMBDA seed : Len(seed.zones) >= 3)
                     /\ out.err # NoErr <=>
                            \A k \in 1..Len(entering.seeds) : Len(entering.seeds[k].zones) < 3
              /\ out.err # NoErr =>
                     /\ r.err = Err("NoSeedWithThreeZones", Len(entering.seeds), {})
                     /\ SchedulingFailed(r) /\ ~r.wrote /\ r.seed = ZeroSeed

C16_ZonalShootsGetThreeZones ==
    \A w \in ShootIds : RanPipeline(rec[w]) => C16_ZoneRule(rec[w])

\* Two Seeds with two zones each entered the zone stage for a zonal Shoot and
\* the reconcile failed.
C16_Witness ==
    \E w \in ShootIds :
        /\ SchedulingFailed(rec[w]) /\ rec[w].err.kind = "NoSeedWithThreeZones"
        /\ rec[w].shoot.failureToleranceType = "zone"
        /\ Len(rec[w].seedList) = 2 /\ rec[w].err.n = 2
        /\ \A k \in 1..2 : Len(rec[w].seedList[k].zones) = 2
        /\ shoots[w].seedName = ""

(***************************************************************************)
(* C17: a Seed survives the eligibility stage only if no two of the        *)
(* Shoot's nodes CIDR, the Shoot's effective pods and services CIDRs (its  *)
(* own, or the Seed's shootDefaults where it has none) and the Seed's      *)
(* nodes, pods and services CIDRs overlap; the substitution is for the     *)
(* check only: the Shoot a successful reconcile sent and the Shoot in the  *)
(* store afterwards have the pods and services the Shoot had when read.    *)
(***************************************************************************)
C17_Effective(own, seed, field) ==
    IF own # <<>> THEN own
    ELSE IF seed.shootDefaults = <<>> THEN <<>>
    ELSE IF field = "pods" THEN seed.shootDefaults[1].pods
    ELSE seed.shootDefaults[1].services

\* The CIDRs of the check: the networks that are set.
C17_Networks(seed, shoot) ==
    LET all == <<shoot.nodes, C17_Effective(shoot.pods, seed, "pods"),
                 C17_Effective(shoot.services, seed, "services"),
                 seed.nodes, <<seed.pods>>, <<seed.services>>>>
    IN {<<i, all[i][1]>> : i \in {j \in 1..6 : all[j] # <<>>}}

C17_Overlap(seed, shoot) ==
    \E a, b \in C17_Networks(seed, shoot) :
        /\ a[1] # b[1]
        /\ \E address \in a[2].lo..a[2].hi : address \in b[2].lo..b[2].hi

C17_NetworkRule(r, stored) ==
    LET shoot == [r.shoot EXCEPT !.seedName = ""]
        survivors == stageCandidates(shoot, r.seedList, r.shootList, r.cp[1])
    IN /\ \A k \in 1..Len(survivors.seeds) : ~C17_Overlap(survivors.seeds[k], shoot)
       /\ r.seed # ZeroSeed => ~C17_Overlap(r.seed, shoot)
       /\ Succeeded(r) =>
              /\ stored.pods = r.shoot.pods /\ stored.services = r.shoot.services
              /\ stored.nodes = r.shoot.nodes
              /\ stored = r.shoot

C17_OnlyDisjointNetworksSurvive ==
    \A w \in ShootIds : RanPipeline(rec[w]) => C17_NetworkRule(rec[w], shoots[w])

\* A Shoot without pods and services was bound to the second Seed, the
\* shootDefaults of the first one overlapping the Shoot's nodes; its pods and
\* services in the store are still empty.
C17_Witness ==
    \E w \in ShootIds :
        /\ Succeeded(rec[w]) /\ Len(rec[w].seedList) = 2
        /\ rec[w].seedList[1].shootDefaults # <<>>
        /\ rec[w].seedList[1].shootDefaults[1].pods = rec[w].shoot.nodes
        /\ C17_Overlap(rec[w].seedList[1], rec[w].shoot)
        /\ shoots[w].seedName = rec[w].seedList[2].name
        /\ rec[w].seedList[2].shootDefaults # <<>>
        /\ shoots[w].pods = <<>> /\ shoots[w].services = <<>>

(***************************************************************************)
(* C18: a Shoot is never bound to a Seed with a taint that none of the     *)
(* Shoot's tolerations tolerates (same key, and the toleration's value     *)
(* absent or equal to the taint's); a Seed with such a taint and           *)
(* acceptable networks is rejected by the eligibility stage with the       *)
(* reason "shoot does not tolerate the seed's taints", and when no other   *)
(* Seed is eligible the reconcile ends with the ShootSchedulingFailed      *)
(* event and retry.                                                        *)
(***************************************************************************)
C18_TaintReason == "shoot does not tolerate the seed's taints"

C18_Untolerated(seed, shoot) ==
    \E taint \in seed.taints :
        ~\E toleration \in shoot.tolerations :
            /\ toleration.key = taint.key
            /\ toleration.value = <<>> \/ toleration.value = taint.value

C18_TaintRule(r, stored) ==
    LET shoot == [r.shoot EXCEPT !.seedName = ""]
        entering == stageZones(shoot, r.seedList, r.cp[1])
        out == filterCandidates(shoot, r.shootList, entering.seeds)
    IN /\ r.seed # ZeroSeed => ~C18_Untolerated(r.seed, shoot)
       /\ \A i \in 1..Len(r.seedList) :
              (stored.seedName # "" /\ r.seedList[i].name = stored.seedName) =>
                  ~C18_Untolerated(r.seedList[i], shoot)
       /\ entering.err = NoErr =>
              /\ \A k \in 1..Len(entering.seeds) :
                     C18_Untolerated(entering.seeds[k], shoot) =>
                         /\ \A j \in 1..Len(out.seeds) : out.seeds[j] # entering.seeds[k]
                         /\ networksAreDisjointed(entering.seeds[k], shoot) =>
                                candidateError(entering.seeds[k], shoot, r.shootList)
                                    = C18_TaintReason
              /\ out.err # NoErr =>
                     /\ SchedulingFailed(r) /\ r.err = out.err /\ ~r.wrote
                     /\ Len(r.events) = 1 /\ IsFailedEvent(r.events[1])
                     /\ \A k \in 1..Len(entering.seeds) :
                            (/\ C18_Untolerated(entering.seeds[k], shoot)
                             /\ networksAreDisjointed(entering.seeds[k], shoot)) =>
                                <<entering.seeds[k].name, C18_TaintReason>> \in r.err.detail

C18_UntoleratedTaintsAreNeverBound ==
    \A w \in ShootIds : RanPipeline(rec[w]) => C18_TaintRule(rec[w], shoots[w])

\* The only Seed carries a taint with a value; the Shoot's toleration has the
\* key and another value, and the reconcile failed with the Seed's reason.
C18_Witness ==
    \E w \in ShootIds :
        /\ SchedulingFailed(rec[w]) /\ Len(rec[w].seedList) = 1
        /\ rec[w].shoot.tolerations # {}
        /\ \E taint \in rec[w].seedList[1].taints, toleration \in rec[w].shoot.tolerations :
               /\ taint.key = toleration.key /\ taint.value # <<>>
               /\ toleration.value # <<>>
        /\ rec[w].err.kind = "NoEligibleCandidate"
        /\ rec[w].err.detail = {<<rec[w].seedList[1].name, C18_TaintReason>>}
        /\ rec[w].result = "retry" /\ shoots[w].seedName = ""

(***************************************************************************)
(* C19: when the eligibility stage keeps no Seed it fails and the map it   *)
(* reports has one entry, a name and a reason, for each Seed that entered  *)
(* the stage and no other; when it keeps a Seed it succeeds and no reason  *)
(* of a rejected Seed reaches the reconcile's error or events.             *)
(***************************************************************************)
C19_RejectionMapRule(r) ==
    LET shoot == [r.shoot EXCEPT !.seedName = ""]
        entering == stageZones(shoot, r.seedList, r.cp[1])
        out == filterCandidates(shoot, r.shootList, entering.seeds)
        inspected == {entering.seeds[k].name : k \in 1..Len(entering.seeds)}
        eligible ==
            {k \in 1..Len(entering.seeds) : Eligible(shoot, r.shootList, entering.seeds[k])}
    IN entering.err = NoErr =>
           /\ eligible = {} =>
                  /\ out.err.kind = "NoEligibleCandidate" /\ out.seeds = <<>>
                  /\ out.err.n = Len(entering.seeds)
                  /\ {entry[1] : entry \in out.err.detail} = inspected
                  /\ Cardinality(out.err.detail) = Cardinality(inspected)
                  /\ \A entry \in out.err.detail : entry[2] # ""
                  /\ SchedulingFailed(r) /\ r.err = out.err
                  /\ r.events = <<[type |-> "Warning", reason |-> "ShootSchedulingFailed",
                                   detail |-> "NoEligibleCandidate"]>>
           /\ eligible # {} =>
                  /\ out.err = NoErr
                  /\ {out.seeds[i] : i \in 1..Len(out.seeds)}
                         = {entering.seeds[k] : k \in eligible}
                  /\ r.err.detail = {}
                  /\ r.err.kind # "NoEligibleCandidate"

C19_RejectionMapCoversInspectedSeeds ==
    \A w \in ShootIds : RanPipeline(rec[w]) => C19_RejectionMapRule(rec[w])

\* Two Seeds were inspected and rejected for different reasons; the failure
\* names both.
C19_Witness ==
    \E w \in ShootIds :
        /\ SchedulingFailed(rec[w]) /\ rec[w].err.kind = "NoEligibleCandidate"
        /\ Len(rec[w].seedList) = 2 /\ rec[w].err.n = 2
        /\ \E e1, e2 \in rec[w].err.detail :
               /\ e1[1] = rec[w].seedList[1].name /\ e2[1] = rec[w].seedList[2].name
               /\ e1[2] = "invalid networks" /\ e2[2] = C18_TaintReason

(***************************************************************************)
(* The stages of a run of determineSeed on the snapshots of a reconcile:   *)
(* the outputs of the seven stages in order, a stage being invoked when    *)
(* the stage before it returned without an error.                          *)
(***************************************************************************)
C20_Outputs(r) ==
    LET shoot == [r.shoot EXCEPT !.seedName = ""]
        usable == filterUsableSeeds(r.seedList)
        cloudProfileSelector == thenCloudProfileSelector(usable, r.cp[1])
        shootSelector == thenShootSelector(cloudProfileSelector, shoot)
        providers == thenProviders(shootSelector, r.cp[1], shoot)
        zones == thenZones(providers, shoot)
        candidates == thenCandidates(zones, shoot, r.shootList)
        strategyStage == thenStrategy(candidates, shoot, strategy)
    IN <<usable, cloudProfileSelector, shootSelector, providers, zones, candidates,
         strategyStage>>

C20_Invoked(outputs, k) == k = 1 \/ outputs[k - 1].err = NoErr
C20_Input(r, outputs, k) == IF k = 1 THEN r.seedList ELSE outputs[k - 1].seeds

\* The tie-break ran on a non-empty list or not at all, and a run that
\* returned a Seed returned one of the snapshot.
C20_TieBreakAndResult(r, outputs) ==
    /\ outputs[7].err = NoErr => outputs[7].seeds # <<>>
    /\ outputs[7].err = NoErr <=> r.seed # ZeroSeed
    /\ r.seed # ZeroSeed => (r.seed.name # "" /\ ChosenAt(r) # {})
    /\ Succeeded(r) => r.seed # ZeroSeed

C20_AsStated(r, outputs) ==
    /\ \A k \in 1..7 :
           C20_Invoked(outputs, k) =>
               /\ C20_Input(r, outputs, k) # <<>>
               /\ \/ outputs[k].seeds # <<>>
                  \/ /\ outputs[k].err # NoErr
                     /\ SchedulingFailed(r)
                     /\ r.err = outputs[k].err
    /\ C20_TieBreakAndResult(r, outputs)

\* The stage returned to determineSeed, with a list or with an error.
C20_Returned(output) == output.err.kind # "panic: nil pointer dereference"

C20_Amended(r, outputs) ==
    /\ C20_Input(r, outputs, 1) = r.seedList
    /\ r.seedList = <<>> =>
           /\ r.err = Err("NoUsableSeed", 0, {})
           /\ SchedulingFailed(r)
    /\ \A k \in 2..7 : C20_Invoked(outputs, k) => C20_Input(r, outputs, k) # <<>>
    /\ \A k \in 1..7 :
           (C20_Invoked(outputs, k) /\ C20_Returned(outputs[k])) =>
               \/ outputs[k].seeds # <<>>
               \/ /\ outputs[k].err # NoErr
                  /\ SchedulingFailed(r)
                  /\ r.err = outputs[k].err
    /\ C20_TieBreakAndResult(r, outputs)

C21_Requires(selector) == selector[1].labelSelector.matchLabels

C21_Kept(list, selector) ==
    SelectSeq(list, LAMBDA seed : \A l \in C21_Requires(selector) : l \in seed.labels)

\* What one application of the stage must return for a well-formed selector.
C21_StageRule(input, selector, kind, output) ==
    IF selector = <<>> THEN output = StageOk(input)
    ELSE selector[1].labelSelector.valid =>
            IF C21_Kept(input, selector) = <<>>
            THEN output.err = Err("NoSeedMatchesSelectorOf" \o kind, Len(input), {})
            ELSE output = StageOk(C21_Kept(input, selector))

C21_SelectorRule(r) ==
    LET usable == stageUsable(r.seedList)
        afterCloudProfile == thenCloudProfileSelector(usable, r.cp[1])
        afterShoot == thenShootSelector(afterCloudProfile, r.shoot)
    IN /\ usable.err = NoErr =>
              C21_StageRule(usable.seeds, r.cp[1].seedSelector, "CloudProfile",
                            afterCloudProfile)
       /\ (usable.err = NoErr /\ afterCloudProfile.err = NoErr) =>
              C21_StageRule(afterCloudProfile.seeds, r.shoot.seedSelector, "Shoot",
                            afterShoot)
       /\ afterShoot.err # NoErr =>
              /\ r.err = afterShoot.err
              /\ r.result = "retry"
              /\ r.wrote = FALSE
              /\ \E i \in 1..Len(r.events) : IsFailedEvent(r.events[i])
       /\ Succeeded(r) =>
              /\ r.cp[1].seedSelector # <<>> =>
                     C21_Requires(r.cp[1].seedSelector) \subseteq r.seed.labels
              /\ r.shoot.seedSelector # <<>> =>
                     C21_Requires(r.shoot.seedSelector) \subseteq r.seed.labels

C21_SelectorsApplyInOrderAndNameTheirKind ==
    \A w \in ShootIds : RanPipeline(rec[w]) => C21_SelectorRule(rec[w])

\* The CloudProfile's selector kept a Seed and the Shoot's selector then kept
\* none of what reached it: the reconcile failed naming "Shoot".
C21_Witness ==
    \E w \in ShootIds :
        /\ RanPipeline(rec[w])
        /\ rec[w].cp[1].seedSelector # <<>>
        /\ rec[w].shoot.seedSelector # <<>>
        /\ Len(rec[w].seedList) = 2
        /\ rec[w].err = Err("NoSeedMatchesSelectorOfShoot", 1, {})
        /\ rec[w].result = "retry"

(***************************************************************************)
(* C22: a reconcile of a Shoot that starts after a reconcile of the same   *)
(* Shoot returned done with a binding (it wrote the binding, or it found   *)
(* it written) issues the one Get and nothing else: it emits no event,     *)
(* writes nothing, leaves every object of the store and its version as it  *)
(* was, and returns done; this holds however often it is repeated.  The    *)
(* only other outcome is that the Get itself fails, which returns the read *)
(* error, also with no event and no write.                                 *)
(***************************************************************************)
\* The last reconcile of the Shoot returned done and knew the binding.
C22_BindingKnown(r) == Completed(r) /\ r.result = "done" /\ r.found /\ r.shoot.seedName # ""

C22_NoOp(w) ==
    /\ rec'[w].pc = "idle"
    /\ rec'[w].ops = <<"getShoot">>
    /\ rec'[w].events = <<>>
    /\ rec'[w].wrote = FALSE
    /\ UNCHANGED <<seeds, shoots, cloudProfile, resourceVersion>>
    /\ \/ /\ rec'[w].result = "done"
          /\ rec'[w].err = NoErr
          /\ rec'[w].shoot = shoots[w]
          /\ C22_BindingKnown(rec'[w])
       \/ /\ rec'[w].result = "retry"
          /\ rec'[w].err = Err("StoreReadError", 0, {})
          /\ budget'.faults < budget.faults

C22_RepeatedReconcileStep ==
    \A w \in ShootIds : (C22_BindingKnown(rec[w]) /\ Begins(w)) => C22_NoOp(w)

C22_ReconcileIsIdempotentOnceBound == [][C22_RepeatedReconcileStep]_vars

\* The scheduler bound x itself (nobody else wrote, the Shoot was written
\* once) and the two reconciles of x after that one were quiet and done.
C22_Witness ==
    /\ budget.extWrites = MaxExtWrites
    /\ budget.faults = MaxFaults
    /\ budget.reconciles = 0
    /\ resourceVersion["x"] = 2
    /\ resourceVersion["y"] = 1
    /\ rec["y"] = IdleReconcile
    /\ C22_BindingKnown(rec["x"])
    /\ rec["x"].ops = <<"getShoot">>
    /\ rec["x"].events = <<>>
    /\ rec["x"].readVersion = 2
    /\ shoots["x"].seedName = rec["x"].shoot.seedName

(***************************************************************************)
(* C23: a failed scheduling attempt never writes and its request is back   *)
(* in the work-queue; and, under weak fairness of the work-queue, a Shoot  *)
(* that from some point on exists, is not being deleted and, while         *)
(* unscheduled, has a Seed in the store that passes every stage for it,    *)
(* is eventually scheduled (store faults and writes of other actors being  *)
(* finitely many).                                                         *)
(***************************************************************************)
C23_FailedAttemptRequeues ==
    \A w \in ShootIds :
        SchedulingFailed(rec[w]) =>
            /\ Queued(w)
            /\ rec[w].wrote = FALSE
            /\ rec[w].err # NoErr

\* A run of the pipeline on the store as it is now would return a Seed.
C23_HasCandidate(w) ==
    /\ cloudProfile # <<>>
    /\ determineSeed(shoots[w], seeds, ListShootsOf(shoots), cloudProfile[1], strategy).err = NoErr

C23_Schedulable(w) ==
    /\ shoots[w].exists
    /\ ~shoots[w].deletionTimestamp
    /\ shoots[w].seedName = "" => C23_HasCandidate(w)

C23_Scheduled(w) == shoots[w].exists /\ shoots[w].seedName # ""

C23_SchedulableShootIsEventuallyScheduled ==
    /\ []C23_FailedAttemptRequeues
    /\ \A w \in ShootIds : <>[]C23_Schedulable(w) => <>C23_Scheduled(w)

\* Only x was reconciled: the Seed was reported ready by its gardenlet, one
\* attempt of x failed on a store fault, and a later attempt bound x.
C23_Witness ==
    /\ budget.faults = 0
    /\ budget.extWrites = 0
    /\ rec["y"] = IdleReconcile
    /\ rec["z"] = IdleReconcile
    /\ Succeeded(rec["x"])
    /\ rec["x"].wrote
    /\ resourceVersion["x"] = 2
    /\ Len(seeds) = 1
    /\ C23_Scheduled("x")

(***************************************************************************)
(* C24: while a Shoot has a deletionTimestamp and no seedName, no step of  *)
(* the scheduler changes it, and every reconcile that reads it returns     *)
(* done after the one Get: no list of Seeds, no event, no write, no error  *)
(* (hence no retry); this holds for each reconcile of it.                  *)
(***************************************************************************)
C24_DeletingUnbound(shoot) == shoot.exists /\ shoot.deletionTimestamp /\ shoot.seedName = ""

C24_Ignored(r, shoot) ==
    /\ r.pc = "idle"
    /\ r.ops = <<"getShoot">>
    /\ r.seedList = <<>>
    /\ r.events = <<>>
    /\ r.wrote = FALSE
    /\ r.found => (r.result = "done" /\ r.err = NoErr /\ r.shoot = shoot)

C24_DeletingShootStep ==
    \A w \in ShootIds :
        C24_DeletingUnbound(shoots[w]) =>
            /\ SchedulerStep => shoots'[w] = shoots[w]
            /\ Begins(w) => C24_Ignored(rec'[w], shoots[w])

C24_DeletingShootIsNeverBound == [][C24_DeletingShootStep]_vars

\* Every reconcile the bound allows was a reconcile of the deleting Shoot x
\* and read it; x is as it was.
C24_Witness ==
    /\ budget.reconciles = 0
    /\ budget.faults = MaxFaults
    /\ rec["y"] = IdleReconcile
    /\ rec["z"] = IdleReconcile
    /\ C24_DeletingUnbound(shoots["x"])
    /\ rec["x"].found
    /\ C24_Ignored(rec["x"], shoots["x"])
    /\ resourceVersion["x"] = 1

(***************************************************************************)
(* C25: a read that fails never leads to a binding and is never reported   *)
(* as done.  A Shoot that is gone: done, no event.  Any other failure of   *)
(* the Get of the Shoot: the error is returned (retry), no event.  A       *)
(* failure of the list of Seeds, of the list of Shoots or of the Get of    *)
(* the CloudProfile (not found included): one ShootSchedulingFailed event  *)
(* carrying the error, and the error is returned (retry).  In each case    *)
(* the reconcile ends there and the store is left as it was.               *)
(***************************************************************************)
\* The step is a read of the reconcile of w.
C25_ReadStep(w) == rec'[w] # rec[w] /\ rec[w].pc # "bind"

\* The read of this step fails: the store fails it, or the CloudProfile the
\* Shoot names is not in the store.
C25_ReadFails(w) ==
    \/ budget'.faults < budget.faults
    \/ /\ rec[w].pc = "getCloudProfile"
       /\ \A i \in 1..Len(cloudProfile) : cloudProfile[i].name # rec[w].shoot.cloudProfileName

C25_ShootIsGone(w) == rec[w].pc = "idle" /\ ~shoots[w].exists

C25_Ended(w, result) ==
    /\ rec'[w].pc = "idle"
    /\ rec'[w].result = result
    /\ rec'[w].wrote = FALSE
    /\ rec'[w].seed = ZeroSeed
    /\ UNCHANGED <<seeds, shoots, cloudProfile, resourceVersion>>

C25_ReadFailureStep ==
    \A w \in ShootIds :
        C25_ReadStep(w) =>
            /\ (C25_ReadFails(w) /\ rec[w].pc = "idle") =>
                   /\ C25_Ended(w, "retry")
                   /\ rec'[w].err # NoErr
                   /\ rec'[w].events = <<>>
            /\ (C25_ReadFails(w) /\ rec[w].pc # "idle") =>
                   /\ C25_Ended(w, "retry")
                   /\ rec'[w].err # NoErr
                   /\ rec'[w].events =
                          <<[type |-> "Warning", reason |-> "ShootSchedulingFailed",
                             detail |-> rec'[w].err.kind]>>
            /\ (C25_ShootIsGone(w) /\ ~C25_ReadFails(w)) =>
                   /\ C25_Ended(w, "done")
                   /\ rec'[w].err = NoErr
                   /\ rec'[w].events = <<>>

C25_ReadFailuresNeverBindAndAreNeverSwallowed == [][C25_ReadFailureStep]_vars

\* The CloudProfile the Shoot names was not found: the reconcile of x ended
\* after its fourth read with the event and the error, and x is unbound.
C25_Witness ==
    /\ rec["x"].pc = "idle"
    /\ rec["x"].ops = <<"getShoot", "listSeeds", "listShoots", "getCloudProfile">>
    /\ rec["x"].err = Err("NotFound", 0, {})
    /\ rec["x"].result = "retry"
    /\ Len(rec["x"].events) = 1
    /\ IsFailedEvent(rec["x"].events[1])
    /\ shoots["x"].seedName = ""

(***************************************************************************)
(* C26: the store operations of a reconcile are a prefix of: Get of the    *)
(* Shoot, list of the Seeds, list of the Shoots, Get of the CloudProfile,  *)
(* update of the binding.  The update is issued only after the four reads  *)
(* returned and the pipeline returned a Seed of the list read, nothing     *)
(* follows it, and a step of the scheduler changes the store only if it is *)
(* that update succeeding: a reconcile that ended earlier, or whose update *)
(* failed, has written nothing.                                            *)
(***************************************************************************)
C26_Order == <<"getShoot", "listSeeds", "listShoots", "getCloudProfile", "updateBinding">>

C26_IssuedUpdate(r) == \E i \in 1..Len(r.ops) : r.ops[i] = "updateBinding"

C26_OperationsInOrder(r) ==
    /\ Len(r.ops) <= Len(C26_Order)
    /\ r.ops = SubSeq(C26_Order, 1, Len(r.ops))
    /\ (r.pc = "bind" \/ C26_IssuedUpdate(r)) =>
           /\ r.found
           /\ r.cp # <<>>
           /\ determineSeed([r.shoot EXCEPT !.seedName = ""], r.seedList, r.shootList,
                            r.cp[1], strategy) = [seed |-> r.seed, err |-> NoErr]
           /\ \E i \in 1..Len(r.seedList) : r.seedList[i] = r.seed
           /\ r.shoot.seedName = r.seed.name
    /\ r.wrote => (C26_IssuedUpdate(r) /\ r.pc = "idle" /\ r.result = "done")
    /\ (r.pc = "idle" /\ r.result # "done") => ~r.wrote

C26_OrderState == \A w \in ShootIds : C26_OperationsInOrder(rec[w])

\* A scheduler step that changes the store is the update of one reconcile
\* succeeding as its fifth and last operation.
C26_WriteStep ==
    (SchedulerStep /\ <<seeds, shoots, cloudProfile, resourceVersion>>'
                          # <<seeds, shoots, cloudProfile, resourceVersion>>) =>
        \E w \in ShootIds :
            /\ rec[w].pc = "bind"
            /\ rec[w].ops = SubSeq(C26_Order, 1, 4)
            /\ rec'[w].ops = C26_Order
            /\ rec'[w].wrote /\ rec'[w].pc = "idle" /\ rec'[w].result = "done"
            /\ shoots' = [shoots EXCEPT ![w].seedName = rec[w].seed.name]
            /\ UNCHANGED <<seeds, cloudProfile>>

C26_ReadsPrecedeTheOneWrite == []C26_OrderState /\ [][C26_WriteStep]_vars

\* The reconcile of x issued the five operations in order and wrote; the
\* reconcile of y issued them too, its update failed, and y is unbound.
C26_Witness ==
    /\ rec["x"].ops = C26_Order
    /\ rec["x"].wrote
    /\ shoots["x"].seedName = rec["x"].seed.name
    /\ rec["y"].ops = C26_Order
    /\ rec["y"].pc = "idle"
    /\ rec["y"].result = "retry"
    /\ ~rec["y"].wrote
    /\ shoots["y"].exists
    /\ shoots["y"].seedName = ""

(***************************************************************************)
(* C29: a Shoot event enqueues a request only if the Shoot of the event    *)
(* has a seedName, and then the request is for that Seed.  A create or a   *)
(* delete event of a Shoot enqueues it exactly if the Shoot has a          *)
(* seedName.  An update event enqueues it only if seedName, workers,       *)
(* extensions, dns, networking type or provider type differ between the    *)
(* old and the new Shoot (it does so exactly if one of them differs and    *)
(* the new Shoot has a seedName); an update in which none of them differs  *)
(* enqueues nothing.                                                       *)
(***************************************************************************)
\* The six fields the claim names (a nil list and an empty list do not differ).
C29_Watched(shoot) ==
    <<shoot.seedName, shoot.workers.items, shoot.extensions.items, shoot.dns,
      shoot.networkingType, shoot.providerType>>

\* The Shoot an event is about: the deleted one, else the created or new one.
C29_ShootOf(e) == IF e.type = "delete" THEN e.old[1] ELSE e.new[1]

C29_ShootEventRule(e) ==
    /\ e.requests # <<>> =>
           /\ C29_ShootOf(e).kind = "Shoot"
           /\ C29_ShootOf(e).seedName # ""
           /\ e.requests = <<C29_ShootOf(e).seedName>>
           /\ e.passed
    /\ (e.type \in {"create", "delete"} /\ C29_ShootOf(e).kind = "Shoot") =>
           (e.requests # <<>> <=> C29_ShootOf(e).seedName # "")
    /\ e.type = "update" =>
           /\ e.requests # <<>> => C29_Watched(e.old[1]) # C29_Watched(e.new[1])
           /\ C29_Watched(e.old[1]) = C29_Watched(e.new[1]) => (e.requests = <<>> /\ ~e.passed)
           /\ e.requests # <<>> <=>
                  (C29_Watched(e.old[1]) # C29_Watched(e.new[1]) /\ e.new[1].seedName # "")

C29_ShootEventsReachTheReconcilerOnlyWhenRelevant ==
    (crs.last # <<>> /\ crs.last[1].kind = "Shoot") => C29_ShootEventRule(crs.last[1])

\* An update of a Shoot on Seed s1 wrote only its region: nothing enqueued,
\* although the Shoot has a seedName and the object changed.
C29_Witness ==
    /\ crs.last # <<>>
    /\ crs.last[1].kind = "Shoot"
    /\ crs.last[1].type = "update"
    /\ crs.last[1].old[1].seedName = "s1"
    /\ crs.last[1].old[1].region # crs.last[1].new[1].region
    /\ crs.last[1].requests = <<>>

(***************************************************************************)
(* C30: a ControllerDeployment event enqueues a request for every Seed of  *)
(* the store, once each, if a ControllerRegistration names that            *)
(* ControllerDeployment among its deploymentRefs and both lists succeed;   *)
(* it enqueues nothing if no ControllerRegistration does, if a list fails  *)
(* or if the object is not a ControllerDeployment.  Every request is for a *)
(* Seed of the store.  The ControllerRegistrations are those of the store  *)
(* when the mapper lists them, the Seeds those of the store when it lists  *)
(* them, which is when it returns; other actors may write in between.      *)
(***************************************************************************)
C30_Referenced(name) ==
    \E i \in 1..Len(crs.registrations) :
        /\ crs.registrations[i].deployment # <<>>
        /\ \E j \in 1..Len(crs.registrations[i].deployment[1].deploymentRefs) :
               crs.registrations[i].deployment[1].deploymentRefs[j] = name

\* The ControllerDeployment mapper starts, returns after its first read, or
\* returns after its second read in this step.
C30_Starts == crs.mapping = <<>> /\ crs'.mapping # <<>>

C30_ReturnsEarly ==
    /\ crs.mapping = <<>>
    /\ crs'.mapping = <<>>
    /\ crs'.last # crs.last
    /\ crs'.last # <<>>
    /\ crs'.last[1].kind = "ControllerDeployment"

C30_ReturnsLate == crs.mapping # <<>> /\ crs'.mapping = <<>>

C30_DeploymentEventRule ==
    /\ C30_Starts =>
           /\ crs'.mapping[1].object.kind = "ControllerDeployment"
           /\ C30_Referenced(crs'.mapping[1].object.name)
    /\ C30_ReturnsEarly =>
           /\ crs'.last[1].requests = <<>>
           /\ \/ crs'.last[1].object.kind # "ControllerDeployment"
              \/ ~C30_Referenced(crs'.last[1].object.name)
              \/ crs'.last[1].registrationListFails
    /\ C30_ReturnsLate =>
           /\ crs'.last[1].kind = "ControllerDeployment"
           /\ crs'.last[1].object = crs.mapping[1].object
           /\ crs'.last[1].requests = IF crs'.last[1].seedListFails THEN <<>> ELSE crs.seeds
           /\ Range(crs'.last[1].requests) \subseteq Range(crs'.seeds)

C30_DeploymentEventsEnqueueAllSeedsWhenReferenced == [][C30_DeploymentEventRule]_vars

\* The second ControllerRegistration names d1 as its second ref and the first
\* has no deployment: the event for d1 enqueued both Seeds.
C30_Witness ==
    /\ crs.last # <<>>
    /\ crs.last[1].kind = "ControllerDeployment"
    /\ crs.last[1].object.name = "d1"
    /\ crs.mapping = <<>>
    /\ Len(crs.registrations) = 2
    /\ crs.registrations[1].deployment = <<>>
    /\ crs.registrations[2].deployment = <<[deploymentRefs |-> <<"d2", "d1">>]>>
    /\ crs.last[1].requests = <<"s1", "s2">>

\* The mapper is between its two reads, and since the first no
\* ControllerRegistration names its ControllerDeployment any more.
C30_BetweenTheReads ==
    /\ crs.mapping # <<>>
    /\ ~C30_Referenced(crs.mapping[1].object.name)
    /\ crs.seeds = <<"s1", "s2">>

(***************************************************************************)
(* C31 as stated: under MinimalDistance (purpose not testing), the stage   *)
(* keeps at least one Seed of every non-empty input.  An input Seed of     *)
(* another provider type than the Shoot is kept exactly if its region      *)
(* distance plus 2 is at most the penalised distance of every other input  *)
(* Seed.  An input Seed of the Shoot's provider type at region distance d  *)
(* excludes every input Seed of another provider type whose region         *)
(* distance is greater than d - 2.  If the only Seed kept is of another    *)
(* provider type, it is the Seed the reconcile binds.                      *)
(***************************************************************************)
C31_RegionDistance(seed, shoot) == distance(seed.region, shoot.region)

C31_CrossProvider(seed, shoot) == seed.providerType # shoot.providerType

C31_Penalised(seed, shoot) ==
    C31_RegionDistance(seed, shoot) + (IF C31_CrossProvider(seed, shoot) THEN 2 ELSE 0)

C31_PenaltyRule(r, shoot, input, output) ==
    /\ output.err = NoErr
    /\ output.seeds # <<>>
    /\ \A i \in 1..Len(input) :
           C31_CrossProvider(input[i], shoot) =>
               (input[i] \in Range(output.seeds) <=>
                    \A j \in 1..Len(input) :
                        j # i => C31_RegionDistance(input[i], shoot) + 2
                                     <= C31_Penalised(input[j], shoot))
    /\ \A i, j \in 1..Len(input) :
           (/\ ~C31_CrossProvider(input[i], shoot)
            /\ C31_CrossProvider(input[j], shoot)
            /\ C31_RegionDistance(input[j], shoot) > C31_RegionDistance(input[i], shoot) - 2)
               => input[j] \notin Range(output.seeds)
    /\ (Len(output.seeds) = 1 /\ C31_CrossProvider(output.seeds[1], shoot)) =>
           (Succeeded(r) /\ r.seed = output.seeds[1])

C31_PenaltyOrdersAndNeverForbids ==
    \A w \in ShootIds :
        (/\ RanPipeline(rec[w])
         /\ strategy = MinimalDistance
         /\ rec[w].shoot.purpose # ShootPurposeTesting
         /\ stageCandidates([rec[w].shoot EXCEPT !.seedName = ""], rec[w].seedList,
                            rec[w].shootList, rec[w].cp[1]).err = NoErr)
            => C31_PenaltyRule(rec[w], [rec[w].shoot EXCEPT !.seedName = ""],
                   stageCandidates([rec[w].shoot EXCEPT !.seedName = ""], rec[w].seedList,
                                   rec[w].shootList, rec[w].cp[1]).seeds,
                   stageStrategy([rec[w].shoot EXCEPT !.seedName = ""], rec[w].seedList,
                                 rec[w].shootList, rec[w].cp[1], strategy))

C31_Sentinel == 1000

C31_AmendedRule(r, shoot, input, output) ==
    /\ output.seeds # <<>> <=>
           \E i \in 1..Len(input) : C31_Penalised(input[i], shoot) <= C31_Sentinel
    /\ output.seeds # <<>> <=> output.err = NoErr
    /\ \A i \in 1..Len(input) :
           C31_CrossProvider(input[i], shoot) =>
               (input[i] \in Range(output.seeds) <=>
                    /\ C31_RegionDistance(input[i], shoot) + 2 <= C31_Sentinel
                    /\ \A j \in 1..Len(input) :
                           j # i => C31_RegionDistance(input[i], shoot) + 2
                                        <= C31_Penalised(input[j], shoot))
    /\ \A i \in 1..Len(input) :
           (/\ ~C31_CrossProvider(input[i], shoot)
            /\ C31_RegionDistance(input[i], shoot) <= C31_Sentinel
            /\ \A j \in 1..Len(input) :
                   C31_RegionDistance(input[i], shoot) <= C31_Penalised(input[j], shoot))
               => input[i] \in Range(output.seeds)
    /\ \A i, j \in 1..Len(input) :
           (/\ ~C31_CrossProvider(input[i], shoot)
            /\ C31_CrossProvider(input[j], shoot)
            /\ C31_RegionDistance(input[j], shoot) > C31_RegionDistance(input[i], shoot) - 2)
               => input[j] \notin Range(output.seeds)
    /\ (Len(output.seeds) = 1 /\ C31_CrossProvider(output.seeds[1], shoot)) =>
           (Succeeded(r) /\ r.seed = output.seeds[1])

(***************************************************************************)
(* C31, amended: under MinimalDistance (purpose not testing) the strategy  *)
(* stage keeps a Seed exactly if some input Seed has a penalised distance  *)
(* of at most 1000.  An input Seed of another provider type than the Shoot *)
(* is kept exactly if its region distance plus 2 is at most 1000 and at    *)
(* most the penalised distance of every other input Seed; so at a region   *)
(* distance of 999 or 1000 it is never kept, while an input Seed of the    *)
(* Shoot's provider type at that distance is kept when none is nearer.  An *)
(* input Seed of the Shoot's provider type at region distance d excludes   *)
(* every input Seed of another provider type whose region distance is      *)
(* greater than d - 2.  If the only Seed kept is of another provider type, *)
(* it is the Seed the reconcile binds.                                     *)
(***************************************************************************)
C31_PenaltyOrdersAndForbidsAtTheSentinel ==
    \A w \in ShootIds :
        (/\ RanPipeline(rec[w])
         /\ strategy = MinimalDistance
         /\ rec[w].shoot.purpose # ShootPurposeTesting
         /\ stageCandidates([rec[w].shoot EXCEPT !.seedName = ""], rec[w].seedList,
                            rec[w].shootList, rec[w].cp[1]).err = NoErr)
            => C31_AmendedRule(rec[w], [rec[w].shoot EXCEPT !.seedName = ""],
                   stageCandidates([rec[w].shoot EXCEPT !.seedName = ""], rec[w].seedList,
                                   rec[w].shootList, rec[w].cp[1]).seeds,
                   stageStrategy([rec[w].shoot EXCEPT !.seedName = ""], rec[w].seedList,
                                 rec[w].shootList, rec[w].cp[1], strategy))

\* The only Seed is of another provider type at region distance 999: the
\* penalty puts it past the starting value, the stage kept none and the
\* reconcile failed, where a Seed of the Shoot's provider type would be bound.
C31_ForbiddenAtTheSentinel ==
    \E w \in ShootIds :
        /\ SchedulingFailed(rec[w]) /\ strategy = MinimalDistance
        /\ rec[w].shoot.purpose # ShootPurposeTesting
        /\ Len(rec[w].seedList) = 1
        /\ C31_CrossProvider(rec[w].seedList[1], rec[w].shoot)
        /\ C31_RegionDistance(rec[w].seedList[1], rec[w].shoot) = C31_Sentinel - 1
        /\ stageCandidates([rec[w].shoot EXCEPT !.seedName = ""], rec[w].seedList,
                           rec[w].shootList, rec[w].cp[1]).seeds = rec[w].seedList
        /\ rec[w].err.kind = "NoMatchingSeedCandidate"
        /\ shoots[w].seedName = ""

\* The first Seed is of another provider type and in the Shoot's region, the
\* second is of the Shoot's provider type one edit away: the penalty puts the
\* first behind the second, and the Shoot is bound to the second.
C31_Witness ==
    \E w \in ShootIds :
        /\ Succeeded(rec[w]) /\ strategy = MinimalDistance
        /\ rec[w].shoot.purpose # ShootPurposeTesting
        /\ Len(rec[w].seedList) = 2
        /\ C31_CrossProvider(rec[w].seedList[1], rec[w].shoot)
        /\ C31_RegionDistance(rec[w].seedList[1], rec[w].shoot) = 0
        /\ ~C31_CrossProvider(rec[w].seedList[2], rec[w].shoot)
        /\ C31_RegionDistance(rec[w].seedList[2], rec[w].shoot) = 1
        /\ stageCandidates([rec[w].shoot EXCEPT !.seedName = ""], rec[w].seedList,
                           rec[w].shootList, rec[w].cp[1]).seeds = rec[w].seedList
        /\ rec[w].seed = rec[w].seedList[2]
        /\ shoots[w].seedName = rec[w].seedList[2].name

(***************************************************************************)
(* C32: in the eligibility stage the rejection map holds at most one       *)
(* entry per input Seed, and the entry of a Seed is the first check it     *)
(* fails in the order networks, tolerations, capacity: a Seed whose        *)
(* networks overlap is recorded for its networks whatever else it fails,   *)
(* a Seed with disjoint networks and an untolerated taint for the taint    *)
(* even if it is at capacity, and only a Seed that passes both for its     *)
(* capacity.  The candidates are the input Seeds without an entry, in      *)
(* input order; if there are none the stage fails and reports the map.     *)
(***************************************************************************)
C32_NetworkReason == "invalid networks"

C32_FirstFailure(seed, shoot, shootList) ==
    IF C17_Overlap(seed, shoot) THEN {C32_NetworkReason}
    ELSE IF C18_Untolerated(seed, shoot) THEN {C18_TaintReason}
    ELSE IF ~HasCapacity(shootList, seed) THEN {C9_CapacityReason}
    ELSE {}

\* The Seed fails at least two of the three checks.
C32_FailsSeveral(seed, shoot, shootList) ==
    \/ C17_Overlap(seed, shoot) /\ C18_Untolerated(seed, shoot)
    \/ C17_Overlap(seed, shoot) /\ ~HasCapacity(shootList, seed)
    \/ C18_Untolerated(seed, shoot) /\ ~HasCapacity(shootList, seed)

C32_Entries(map, seed) == {e[2] : e \in {f \in map : f[1] = seed.name}}

C32_RejectionRule(shoot, shootList, input, map, output) ==
    /\ \A i \in 1..Len(input) :
           /\ Cardinality({e \in map : e[1] = input[i].name}) <= 1
           /\ C32_Entries(map, input[i]) = C32_FirstFailure(input[i], shoot, shootList)
    /\ \A e \in map : \E i \in 1..Len(input) : input[i].name = e[1]
    /\ IF \A i \in 1..Len(input) : C32_Entries(map, input[i]) # {}
       THEN /\ output.err.kind = "NoEligibleCandidate"
            /\ output.err.detail = map
            /\ output.seeds = <<>>
       ELSE /\ output.err = NoErr
            /\ output.seeds = SelectSeq(input, LAMBDA seed : C32_Entries(map, seed) = {})

C32_OneReasonPerSeedInFixedOrder ==
    \A w \in ShootIds :
        (/\ RanPipeline(rec[w])
         /\ stageZones([rec[w].shoot EXCEPT !.seedName = ""], rec[w].seedList,
                       rec[w].cp[1]).err = NoErr)
            => C32_RejectionRule([rec[w].shoot EXCEPT !.seedName = ""], rec[w].shootList,
                   stageZones([rec[w].shoot EXCEPT !.seedName = ""], rec[w].seedList,
                              rec[w].cp[1]).seeds,
                   candidateErrorsLoop(
                       stageZones([rec[w].shoot EXCEPT !.seedName = ""], rec[w].seedList,
                                  rec[w].cp[1]).seeds,
                       [rec[w].shoot EXCEPT !.seedName = ""], rec[w].shootList, {}),
                   stageCandidates([rec[w].shoot EXCEPT !.seedName = ""], rec[w].seedList,
                                   rec[w].shootList, rec[w].cp[1]))

\* The first Seed fails all three checks and the second the last two; the
\* reconcile failed, reporting the first for its networks and the second for
\* its taint.
C32_Witness ==
    \E w \in ShootIds :
        /\ SchedulingFailed(rec[w])
        /\ Len(rec[w].seedList) = 2
        /\ C17_Overlap(rec[w].seedList[1], rec[w].shoot)
        /\ C18_Untolerated(rec[w].seedList[1], rec[w].shoot)
        /\ ~HasCapacity(rec[w].shootList, rec[w].seedList[1])
        /\ ~C17_Overlap(rec[w].seedList[2], rec[w].shoot)
        /\ C32_FailsSeveral(rec[w].seedList[2], rec[w].shoot, rec[w].shootList)
        /\ rec[w].err.kind = "NoEligibleCandidate"
        /\ rec[w].err.detail = {<<"s1", C32_NetworkReason>>, <<"s2", C18_TaintReason>>}

(***************************************************************************)
(* C33: the output of every stage that returns a list is a subsequence of  *)
(* its input: its Seeds are Seeds of the input, none twice, in input       *)
(* order.  The list that reaches the tie-break is the Seed list snapshot   *)
(* restricted to the Seeds that pass stages A-F, in snapshot order; this   *)
(* holds under MinimalDistance too, where the loop starts the candidates   *)
(* anew at every smaller distance.                                         *)
(***************************************************************************)
\* For a list without repetitions: sub is list with some elements left out.
C33_IsSubsequence(sub, list) ==
    /\ \A i, j \in 1..Len(sub) : sub[i] = sub[j] => i = j
    /\ sub = SelectSeq(list, LAMBDA seed : seed \in Range(sub))

\* The elements of the list at the given positions, in the order of the list.
C33_Restricted(list, positions) ==
    LET at == SelectSeq([i \in 1..Len(list) |-> i], LAMBDA i : i \in positions)
    IN [k \in 1..Len(at) |-> list[at[k]]]

C33_NoRepetition(list) == \A i, j \in 1..Len(list) : list[i].name = list[j].name => i = j

C33_StageRule(r, outputs) ==
    /\ C33_NoRepetition(r.seedList)
    /\ \A k \in 1..Len(outputs) :
           (C20_Invoked(outputs, k) /\ outputs[k].err = NoErr) =>
               /\ C33_IsSubsequence(outputs[k].seeds, C20_Input(r, outputs, k))
               /\ C33_IsSubsequence(outputs[k].seeds, r.seedList)
    /\ outputs[Len(outputs)].err = NoErr =>
           outputs[Len(outputs)].seeds = C33_Restricted(r.seedList, Survivors(r))

C33_StagesOnlyShrinkInOrder ==
    \A w \in ShootIds : RanPipeline(rec[w]) => C33_StageRule(rec[w], C20_Outputs(rec[w]))

\* Under MinimalDistance the first of three Seeds is farther than the second,
\* so the loop started anew at the second and then appended the third: the
\* tie-break received the second and the third, in that order.
C33_Witness ==
    \E w \in ShootIds :
        /\ Succeeded(rec[w]) /\ strategy = MinimalDistance
        /\ Len(rec[w].seedList) = 3
        /\ C15_Penalised(rec[w].seedList[1], rec[w].shoot)
               > C15_Penalised(rec[w].seedList[2], rec[w].shoot)
        /\ C20_Outputs(rec[w])[6].seeds = rec[w].seedList
        /\ C20_Outputs(rec[w])[7].seeds = <<rec[w].seedList[2], rec[w].seedList[3]>>

(***************************************************************************)
(* C34: when reconciles run one at a time and only the scheduler binds,    *)
(* a Seed that publishes allocatable K and hosted at most K Shoots at the  *)
(* start never hosts more than K Shoots.                                   *)
(***************************************************************************)
C34_OneAtATime == Cardinality({w \in ShootIds : rec[w].pc # "idle"}) <= 1

C34_CapacityIsRespectedWhenSequential ==
    /\ C34_OneAtATime
    /\ \A i \in 1..Len(seeds) :
           seeds[i].allocatable # <<>> =>
               Cardinality({w \in ShootIds : shoots[w].exists /\ shoots[w].seedName = seeds[i].name})
                   <= seeds[i].allocatable[1]

\* The first Seed publishes capacity 1 and the second none; a first reconcile
\* bound its Shoot to the first Seed, and a later reconcile found the first
\* Seed full in its snapshot and bound its Shoot to the second.
C34_Witness ==
    \E v, w \in ShootIds :
        /\ v # w
        /\ Len(seeds) = 2
        /\ seeds[1].allocatable = <<1>>
        /\ Succeeded(rec[v]) /\ rec[v].seed = seeds[1]
        /\ BoundShoots(rec[v].shootList, seeds[1].name) = 0
        /\ Succeeded(rec[w]) /\ rec[w].seed = seeds[2]
        /\ BoundShoots(rec[w].shootList, seeds[1].name) = 1
        /\ shoots[v].seedName = seeds[1].name
        /\ shoots[w].seedName = seeds[2].name

(***************************************************************************)
(* C35: when no Shoot is bound at the start, no Seed publishes a capacity  *)
(* and every Seed passes stages A-F for every Shoot, and reconciles run    *)
(* one at a time, each on a fresh snapshot, the numbers of Shoots hosted   *)
(* by any two Seeds never differ by more than 1.                           *)
(***************************************************************************)
C35_Hosted(i) ==
    Cardinality({w \in ShootIds : shoots[w].exists /\ shoots[w].seedName = seeds[i].name})

\* Every Seed passes stages A to F for every Shoot of the store.
C35_AllSeedsPass ==
    \A i \in 1..Len(seeds), w \in ShootIds :
        shoots[w].exists =>
            /\ seeds[i].allocatable = <<>>
            /\ ~Unusable(seeds[i])
            /\ MatchesSelector(cloudProfile[1].seedSelector, seeds[i])
            /\ MatchesSelector(shoots[w].seedSelector, seeds[i])
            /\ MatchesProviderRule(cloudProfile[1], shoots[w], seeds[i])
            /\ MeetsZoneRequirement(shoots[w], seeds[i])
            /\ ~C17_Overlap(seeds[i], shoots[w])
            /\ ~C18_Untolerated(seeds[i], shoots[w])
            /\ C15_Penalised(seeds[i], shoots[w]) = 0

C35_LoadStaysBalancedWhenSequential ==
    \A i, j \in 1..Len(seeds) : C35_Hosted(i) - C35_Hosted(j) <= 1

\* Three reconciles bound three Shoots to two Seeds: two to the first Seed
\* and one to the second.
C35_Witness ==
    /\ Len(seeds) = 2
    /\ \A w \in ShootIds : Succeeded(rec[w]) /\ shoots[w].seedName = rec[w].seed.name
    /\ C35_Hosted(1) = 2
    /\ C35_Hosted(2) = 1
    /\ C35_AllSeedsPass

(***************************************************************************)
(* C36: when determineSeed returns without an error, the Seed it returns   *)
(* is a Seed of the Seed list read in that reconcile and has a non-empty   *)
(* name (it is not the zero value); the reconcile then writes that name,   *)
(* so a successful binding write sets seedName to the non-empty name of a  *)
(* Seed of the snapshot.                                                   *)
(***************************************************************************)
C36_InSnapshot(r, seed) ==
    /\ seed # ZeroSeed
    /\ seed.name # ""
    /\ \E i \in 1..Len(r.seedList) : r.seedList[i] = seed

C36_ReturnRule(r, stored, returned) ==
    /\ returned.err = NoErr =>
           /\ C36_InSnapshot(r, returned.seed)
           /\ r.seed = returned.seed
           /\ r.shoot.seedName = returned.seed.name
    /\ r.pc = "bind" => returned.err = NoErr
    /\ r.wrote =>
           /\ returned.err = NoErr
           /\ stored.seedName = returned.seed.name
           /\ stored.seedName \in {r.seedList[i].name : i \in 1..Len(r.seedList)} \ {""}

C36_ReturnedSeedIsOfTheSnapshot ==
    \A w \in ShootIds :
        rec[w].cp # <<>> =>
            C36_ReturnRule(rec[w], shoots[w],
                determineSeed([rec[w].shoot EXCEPT !.seedName = ""], rec[w].seedList,
                              rec[w].shootList, rec[w].cp[1], strategy))

\* Of three Seeds the third was returned and written: the first two did not
\* survive, or host more Shoots.
C36_Witness ==
    \E w \in ShootIds :
        /\ Succeeded(rec[w]) /\ rec[w].wrote
        /\ Len(rec[w].seedList) = 3
        /\ rec[w].seed = rec[w].seedList[3]
        /\ shoots[w].seedName = "s3"

(***************************************************************************)
(* C37: under MinimalDistance (purpose not testing) the running minimum    *)
(* starts at 1000.  If the least penalised distance of the input is at     *)
(* most 1000, the stage keeps the Seeds at that distance, also if it is    *)
(* exactly 1000.  If the penalised distance of every input Seed is above   *)
(* 1000, the stage keeps none: the reconcile fails with the error that no  *)
(* matching seed candidate was found and the Shoot stays unbound, although *)
(* there is a closest Seed.                                                *)
(***************************************************************************)
C37_Sentinel == 1000

C37_Least(input, shoot) ==
    CHOOSE d \in {C15_Penalised(input[i], shoot) : i \in 1..Len(input)} :
        \A i \in 1..Len(input) : d <= C15_Penalised(input[i], shoot)

C37_SentinelRule(r, stored, shoot, input, output) ==
    IF C37_Least(input, shoot) <= C37_Sentinel
    THEN /\ output.err = NoErr
         /\ output.seeds =
                SelectSeq(input,
                       LAMBDA seed : C15_Penalised(seed, shoot) = C37_Least(input, shoot))
    ELSE /\ output.seeds = <<>>
         /\ output.err.kind = "NoMatchingSeedCandidate"
         /\ Completed(r) =>
                /\ r.result = "retry"
                /\ r.err.kind = "NoMatchingSeedCandidate"
                /\ r.seed = ZeroSeed
                /\ ~r.wrote
                /\ stored.seedName = ""

C37_RunningMinimumStartsAtTheSentinel ==
    \A w \in ShootIds :
        (/\ rec[w].cp # <<>>
         /\ strategy = MinimalDistance
         /\ rec[w].shoot.purpose # ShootPurposeTesting
         /\ stageCandidates([rec[w].shoot EXCEPT !.seedName = ""], rec[w].seedList,
                            rec[w].shootList, rec[w].cp[1]).err = NoErr)
            => C37_SentinelRule(rec[w], shoots[w], [rec[w].shoot EXCEPT !.seedName = ""],
                   stageCandidates([rec[w].shoot EXCEPT !.seedName = ""], rec[w].seedList,
                                   rec[w].shootList, rec[w].cp[1]).seeds,
                   stageStrategy([rec[w].shoot EXCEPT !.seedName = ""], rec[w].seedList,
                                 rec[w].shootList, rec[w].cp[1], strategy))

\* Two Seeds entered the strategy stage at penalised distances 1001 and 1003
\* (the second is of another provider type, at region distance 1001): none
\* was kept and the reconcile failed.
C37_Witness ==
    \E w \in ShootIds :
        /\ SchedulingFailed(rec[w]) /\ strategy = MinimalDistance
        /\ rec[w].err.kind = "NoMatchingSeedCandidate"
        /\ Len(rec[w].seedList) = 2
        /\ stageCandidates(rec[w].shoot, rec[w].seedList, rec[w].shootList,
                           rec[w].cp[1]).seeds = rec[w].seedList
        /\ C15_Penalised(rec[w].seedList[1], rec[w].shoot) = C37_Sentinel + 1
        /\ C15_Penalised(rec[w].seedList[2], rec[w].shoot) = C37_Sentinel + 3
        /\ shoots[w].seedName = ""

\* A Seed at penalised distance exactly 1000 with no closer Seed: kept and bound.
C37_KeptAtTheSentinel ==
    \E w \in ShootIds :
        /\ Succeeded(rec[w]) /\ strategy = MinimalDistance
        /\ C15_Penalised(rec[w].seed, rec[w].shoot) = C37_Sentinel
        /\ shoots[w].seedName = rec[w].seed.name

====
